---- MODULE Spec2Model ----
(***************************************************************************)
(* Model of the discovery-correlation-dispatch pipeline:                   *)
(*   - the Fund Dispatcher   (transaction.js, monitoring.js)               *)
(*   - the Target Resolver   (transaction.js)                              *)
(*   - the Similarity Correlator (generation.js)                           *)
(*   - the Rate Limiter          (generation.js)                           *)
(*   - scanning: the generator loop, the poll feed and the event feed      *)
(*     under the menu's start and stop (generation.js, index.js)           *)
(* Amounts are in lamports (1 SOL = 10^9 lamports).                        *)
(***************************************************************************)
EXTENDS Integers, Sequences, FiniteSets, Bags, TLC

\* ------------------------------------------------------------------ bounds
MaxDispatchTargets == 3
MaxHistory == 2
MaxTargetsSetting == 3
MaxTasks == 2
MaxCallers == 4
MaxStarts == 2
MaxFileRecords == 2
MaxHandlers == 2
MaxSweeps == 2
MaxWrites == 3

\* ------------------------------------------------------- program constants
MinBalanceForRent == 2039280
TransactionFee == 5000
FundingBuffer == 2000000
MIN_FRONT_SIMILARITY == 4
SliceSix == 6

Min2(a, b) == IF a < b THEN a ELSE b

\* ------------------------------------------------------------------- state
\* the Fund Dispatcher
VARIABLES
    dpc,          \* position of the dispatch: idle, fund, postFund, rentFetch,
                  \* fanout, sweepFetch, sweepXfer, log, done, aborted
    dEntry,       \* entry point: "menu" (viewTargets) or "monitor"
    dTargets,     \* the resolved target list handed to the dispatch
    amountToSend, \* settings.amountToSend, in lamports
    genBal,       \* ledger balance of the dispatch (generated) wallet
    funded,       \* "no", "confirmed", "failed": outcome of fundGeneratedWallet
    seenBal,      \* generatedBalance read by sendTransactionsInParallel: [st, v] with
                  \* st "unread", "null" (failed fetch) or "value"
    xfer,         \* per target: "none", "inflight", "logs", "ok", "fail", "rejected"
    attempts,     \* per target: number of transfers submitted
    results,      \* transactionResults (the value sendTransactionsInParallel returned)
    returned,     \* sendTransactionsInParallel has returned
    sweepStarted, \* returnRemainingFunds has been called
    sweepSent,    \* lamports submitted by the sweep-back transfer (0 = none)
    monitored     \* entries appended to monitored_wallets.json

dvars == <<dpc, dEntry, dTargets, amountToSend, genBal, funded, seenBal, xfer,
           attempts, results, returned, sweepStarted, sweepSent, monitored>>

\* the Target Resolver
VARIABLES
    rpc,          \* position of getTargetsWithTimeout: start, loop, ask, done, or
                  \* rejected (an exception left it for its caller)
    rActive,      \* activeWallet
    rHistory,     \* the transactions behind getSignaturesForAddress, newest first
    bal,          \* the ledger: lamports of every address
    minSolTarget, \* settings.minSolTarget, in lamports
    maxTargets,   \* settings.maxTargets
    rTargets,     \* targets: the value of the latest getTargets pass
    rLastMin,     \* the minimum balance the latest pass was called with
    rPasses,      \* the passes made so far: a sequence of "ordinary" / "relaxed"
    elapsed,      \* Date.now() - start, in ms
    rCalls        \* the outbound calls the latest pass made, in order

rvars == <<rpc, rActive, rHistory, bal, minSolTarget, maxTargets, rTargets,
           rLastMin, rPasses, elapsed, rCalls>>

\* the Similarity Correlator
VARIABLES
    generatedKeypairs, \* the pool: public keys in Map insertion order
    activeAddresses,   \* the active set: [publicKey, balance] in Map insertion order
    similarAddresses,  \* the match set: records in Set insertion order
    tasks              \* the asynchronous calls in flight: a bag of task records

cvars == <<generatedKeypairs, activeAddresses, similarAddresses, tasks>>

\* the Rate Limiter and the tasks calling waitForToken
VARIABLES
    tokens,       \* this.tokens, in refill quanta (QuantaPerToken of them to a token)
    timePassed,   \* Date.now() - this.lastRefilled, in ticks of TickMs
    lpc,          \* per task calling waitForToken: idle (not in a call),
                  \* sleeping (in the 100 ms setTimeout), due (its timer has
                  \* expired), holding (waitForToken has returned)
    waited,       \* per calling task: its current call has slept at least once
    grantAges     \* the ages, in ticks, of the acquisitions granted less than
                  \* perSeconds ago, oldest first

lvars == <<tokens, timePassed, lpc, waited, grantAges>>

\* scanning: the generator loop, the poll feed and the event feed
VARIABLES
    autoMode,       \* the scanning-enabled flag of generation.js
    starts,         \* the 'Start Generation' choices made so far
    loading,        \* the loadExistingData calls in flight: a bag of [by, phase], by
                    \* being the caller (start: startAutoMode, menu:
                    \* sendTransactionMenu) and phase the file whose read is
                    \* awaited; a sendTransactionMenu stays in it after its load,
                    \* phase being then the await it is in: prompt, balances, targets
    generatorLoops, \* live generateAndSaveKeypair loops (each is in an await of its body)
    exploreLoops,   \* live exploreAddresses loops: a bag of the awaits they are in:
                    \* recheck, sleep, hash, block, keys, save
    terminated,     \* per kind of loop: 1 once a live loop of that kind has returned
    sockets,        \* live WebSocket objects created by setupWebSocket
    reconnects,     \* pending setTimeout(setupWebSocket, 1000) timers
    handlers,       \* 'message' handlers in flight: a bag with one "check" for
                    \* each, which awaits a call of checkAndAddAddress
    unhandled       \* a 'message' handler has rejected with an uncaught exception

svars == <<autoMode, starts, loading, generatorLoops, exploreLoops, terminated,
           sockets, reconnects, handlers, unhandled>>

\* address ingestion: checkAndAddAddress under its callers, and the exploration queue
VARIABLES
    addressesToExplore, \* the exploration queue: addresses in Set insertion order
    exploreArray,       \* addressesToExploreArray: what a cycle has still to re-check
    epc,                \* position of the exploreAddresses loop: top, recheck (in the
                        \* for loop over the drained queue), poll (walking the
                        \* addresses of a fetched block), returned, or off
    lastReturn,         \* the latest return of checkAndAddAddress: <<>> or one record
    queueAdds           \* per address: the times addressesToExplore.add inserted it

ivars == <<addressesToExplore, exploreArray, epc, lastReturn, queueAdds>>

\* the sweep-back operations on a dispatch wallet
VARIABLES
    walletBal,    \* ledger balance of the dispatch wallet, in lamports
    mpc,          \* position of the sweep-back: idle, the operation awaiting its
                  \* getBalance, or xfer (awaiting sendAndConfirmTransaction)
    submitted     \* the transfers the sweep-backs have submitted: [by, lamports]

mvars == <<walletBal, mpc, submitted>>

\* the persisted target snapshot
VARIABLES
    targetAddresses  \* the targetAddresses Map of data.js, in insertion order

pvars == <<targetAddresses>>

\* persistence through writeJsonFile
VARIABLES
    dataFiles,    \* per file: what is at filePath, [st, data, len]
    tempFiles,    \* per file: what is at filePath + '.tmp', absent or [st, data, len]
    writes        \* the appendToFile and save calls in flight: a bag of
                  \* [op, file, data, phase, fd], phase being the await the call is
                  \* in and fd where the file it has opened is now
VARIABLE writeCalls  \* the number of these calls made so far

fvars == <<dataFiles, tempFiles, writes, writeCalls>>

vars == <<dvars, rvars, cvars, lvars, svars, ivars, mvars, pvars, fvars>>

\* ================================================================== FILES

\* ACTIVE_ADDRESSES_FILE and TARGET_ADDRESSES_FILE
Files == {"active", "target"}

\* the length of JSON.stringify(data, null, 2) in units of one record: the brackets
\* and the records, which are of one length each
Size(data) == Len(data) + 1

\* no file at the path; a file that JSON.parse reads as the array data; a file of
\* len units that JSON.parse throws on
Absent == [st |-> "absent", data |-> <<>>, len |-> 0]
Json(data) == [st |-> "json", data |-> data, len |-> Size(data)]
Broken(len) == [st |-> "broken", data |-> <<>>, len |-> len]

\* ensureFileExists: fs.writeFile(filePath, '[]') when the file is not there
EmptyFiles == [f \in Files |-> Json(<<>>)]
NoTemps == [f \in Files |-> Absent]

\* the files where they are not followed: what a read returns is then an input
FilesOff == [f \in Files |-> [st |-> "off", data |-> <<>>, len |-> 0]]

\* ============================================================ DISPATCHER

Wallets == <<"W1", "W2", "W3", "W4", "W5">>
AmountChoices == {5000, 10000000}
InitialGenBalances == {0, 3000000}
EntryPoints == {"menu", "monitor"}

\* Math.ceil((settings.amountToSend * targets.length + 0.002) * LAMPORTS_PER_SOL);
\* for the amounts of AmountChoices (0.000005 and 0.01 SOL) and up to four targets
\* the double-precision value is the exact lamport count
TotalAmount(amt, n) == amt * n + FundingBuffer

\* generatedBalance < minBalanceForRent, a null balance compares as 0
RentRefusedNever(b) == FALSE
RentRefused(b) == (IF b.st = "null" THEN 0 ELSE b.v) < MinBalanceForRent

\* an exception thrown by fundGeneratedWallet rejects the caller
AfterFundFailSwallowed == "postFund"
AfterFundFail == "aborted"

\* the ways sendAndConfirmTransaction settles: confirmed, thrown with an error
\* whose outcome the .catch handler returns at once, thrown with a
\* SendTransactionError whose logs the handler fetches first
Settlements == {"ok", "fail", "logs"}

\* Promise.all(transactions) resolves once every transfer promise has resolved
AnySettled(x) == \E i \in DOMAIN x : x[i] \in {"ok", "fail"}
AllSettled(x) == \A i \in DOMAIN x : x[i] \in {"ok", "fail"}

\* the .then / .catch handlers of one transfer: its outcome record
Outcome(t, st) == [target |-> t, success |-> (st = "ok")]

\* transactionResults.find(result => result.target === target.publicKey)?.success || false
SentSuccessful(res, t) ==
    LET hits == {i \in 1..Len(res) : res[i].target = t}
    IN  IF hits = {} THEN FALSE
        ELSE res[CHOOSE i \in hits : \A j \in hits : i <= j].success

\* transactionResults.every(result => result.success) ? 'Success' : 'Partial Failure'
TransactionStatus(res) ==
    IF \A i \in 1..Len(res) : res[i].success THEN "Success" ELSE "Partial Failure"

LogEntry(tg, res) ==
    [targets |-> [i \in 1..Len(tg) |->
                    [publicKey |-> tg[i], sentSuccessful |-> SentSuccessful(res, tg[i])]],
     transactionStatus |-> TransactionStatus(res)]

InitDispatch ==
    /\ dpc = "idle"
    /\ dEntry = "none"
    /\ dTargets = <<>>
    /\ amountToSend \in AmountChoices
    /\ genBal \in InitialGenBalances
    /\ funded = "no"
    /\ seenBal = [st |-> "unread", v |-> 0]
    /\ xfer = <<>>
    /\ attempts = <<>>
    /\ results = <<>>
    /\ returned = FALSE
    /\ sweepStarted = FALSE
    /\ sweepSent = 0
    /\ monitored = <<>>
    \* the other components are not running
    /\ rpc = "off" /\ rActive = "ACT" /\ rHistory = <<>>
    /\ bal = <<>>
    /\ minSolTarget = 0 /\ maxTargets = 0 /\ rTargets = <<>> /\ rLastMin = 0
    /\ rPasses = <<>> /\ elapsed = 0 /\ rCalls = <<>>
    /\ generatedKeypairs = <<>> /\ activeAddresses = <<>>
    /\ similarAddresses = <<>> /\ tasks = EmptyBag
    /\ tokens = 0 /\ timePassed = 0 /\ lpc = <<>> /\ waited = <<>>
    /\ grantAges = <<>>
    /\ autoMode = FALSE /\ starts = 0 /\ loading = EmptyBag /\ generatorLoops = 0
    /\ exploreLoops = EmptyBag /\ terminated = <<>> /\ sockets = 0
    /\ reconnects = 0 /\ handlers = EmptyBag /\ unhandled = FALSE
    /\ addressesToExplore = <<>> /\ exploreArray = <<>> /\ epc = "off"
    /\ lastReturn = <<>> /\ queueAdds = <<>>
    /\ walletBal = 0 /\ mpc = "off" /\ submitted = <<>>
    /\ targetAddresses = <<>>
    /\ dataFiles = FilesOff /\ tempFiles = NoTemps
    /\ writes = EmptyBag /\ writeCalls = 0

\* the operator confirms "Send transaction to these targets?"; fundGeneratedWallet is called
Confirm(e, n) ==
    /\ dpc = "idle"
    /\ dpc' = "fund"
    /\ dEntry' = e
    /\ dTargets' = SubSeq(Wallets, 1, n)
    /\ xfer' = [i \in 1..n |-> "none"]
    /\ attempts' = [i \in 1..n |-> 0]
    /\ UNCHANGED <<amountToSend, genBal, funded, seenBal, results, returned,
                   sweepStarted, sweepSent, monitored>>
    /\ UNCHANGED <<rvars, cvars, lvars, svars, ivars, mvars, pvars, fvars>>

\* sendAndConfirmTransaction of the funding transfer confirms
FundOk ==
    /\ dpc = "fund"
    /\ dpc' = "postFund"
    /\ funded' = "confirmed"
    /\ genBal' = genBal + TotalAmount(amountToSend, Len(dTargets))
    /\ UNCHANGED <<dEntry, dTargets, amountToSend, seenBal, xfer, attempts, results,
                   returned, sweepStarted, sweepSent, monitored>>
    /\ UNCHANGED <<rvars, cvars, lvars, svars, ivars, mvars, pvars, fvars>>

\* sendAndConfirmTransaction of the funding transfer throws
FundFail ==
    /\ dpc = "fund"
    /\ dpc' = AfterFundFail
    /\ funded' = "failed"
    /\ UNCHANGED <<dEntry, dTargets, amountToSend, genBal, seenBal, xfer, attempts,
                   results, returned, sweepStarted, sweepSent, monitored>>
    /\ UNCHANGED <<rvars, cvars, lvars, svars, ivars, mvars, pvars, fvars>>

\* fetchGeneratedWalletBalance after funding; generatedBalanceAfterFunding.toFixed
\* throws on the null of a failed fetch
PostFundBalance(ok) ==
    /\ dpc = "postFund"
    /\ dpc' = IF ok THEN "rentFetch" ELSE "aborted"
    /\ UNCHANGED <<dEntry, dTargets, amountToSend, genBal, funded, seenBal, xfer,
                   attempts, results, returned, sweepStarted, sweepSent, monitored>>
    /\ UNCHANGED <<rvars, cvars, lvars, svars, ivars, mvars, pvars, fvars>>

\* sendTransactionsInParallel: the balance fetch returns, the rent check runs and,
\* when it passes, targets.map submits one transfer per target
RentCheck(ok) ==
    /\ dpc = "rentFetch"
    /\ seenBal' = IF ok THEN [st |-> "value", v |-> genBal] ELSE [st |-> "null", v |-> 0]
    /\ IF RentRefused(seenBal')
       THEN /\ results' = <<>>
            /\ returned' = TRUE
            /\ sweepStarted' = TRUE
            /\ dpc' = "sweepFetch"
            /\ UNCHANGED <<xfer, attempts>>
       ELSE /\ xfer' = [i \in DOMAIN xfer |-> "inflight"]
            /\ attempts' = [i \in DOMAIN attempts |-> attempts[i] + 1]
            /\ dpc' = "fanout"
            /\ UNCHANGED <<results, returned, sweepStarted>>
    /\ UNCHANGED <<dEntry, dTargets, amountToSend, genBal, funded, sweepSent, monitored>>
    /\ UNCHANGED <<rvars, cvars, lvars, svars, ivars, mvars, pvars, fvars>>

\* sendAndConfirmTransaction of one transfer settles: it confirms (.then), it throws
\* an error that is no SendTransactionError (.catch returns the outcome), or it
\* throws a SendTransactionError and the .catch handler awaits error.getLogs().
\* The transfers are in flight on their own: they settle also after Promise.all
\* has rejected.
Settle(i, how) ==
    /\ dpc \in {"fanout", "aborted"}
    /\ i \in DOMAIN xfer
    /\ xfer[i] = "inflight"
    /\ IF how = "ok"
       THEN /\ genBal >= amountToSend + TransactionFee
            /\ genBal' = genBal - (amountToSend + TransactionFee)
            /\ xfer' = [xfer EXCEPT ![i] = "ok"]
       ELSE /\ xfer' = [xfer EXCEPT ![i] = how]
            /\ UNCHANGED genBal
    /\ UNCHANGED <<dpc, dEntry, dTargets, amountToSend, funded, seenBal, attempts,
                   results, returned, sweepStarted, sweepSent, monitored>>
    /\ UNCHANGED <<rvars, cvars, lvars, svars, ivars, mvars, pvars, fvars>>

\* logs = await error.getLogs() returns and the handler returns the outcome, or it
\* rejects (it is called without a connection): the handler's promise rejects and
\* Promise.all rejects at its first rejection, so that the caller leaves
\* sendTransactionsInParallel by the exception, before returnRemainingFunds and
\* logTransactionDetails
GetLogsDone(i, ok) ==
    /\ dpc \in {"fanout", "aborted"}
    /\ i \in DOMAIN xfer
    /\ xfer[i] = "logs"
    /\ xfer' = [xfer EXCEPT ![i] = IF ok THEN "fail" ELSE "rejected"]
    /\ dpc' = IF ok THEN dpc ELSE "aborted"
    /\ UNCHANGED <<dEntry, dTargets, amountToSend, genBal, funded, seenBal, attempts,
                   results, returned, sweepStarted, sweepSent, monitored>>
    /\ UNCHANGED <<rvars, cvars, lvars, svars, ivars, mvars, pvars, fvars>>

\* Promise.all resolves with the outcomes in target order; returnRemainingFunds is called
FanoutDone ==
    /\ dpc = "fanout"
    /\ AllSettled(xfer)
    /\ results' = [i \in 1..Len(dTargets) |-> Outcome(dTargets[i], xfer[i])]
    /\ returned' = TRUE
    /\ sweepStarted' = TRUE
    /\ dpc' = "sweepFetch"
    /\ UNCHANGED <<dEntry, dTargets, amountToSend, genBal, funded, seenBal, xfer,
                   attempts, sweepSent, monitored>>
    /\ UNCHANGED <<rvars, cvars, lvars, svars, ivars, mvars, pvars, fvars>>

\* returnRemainingFunds: connection.getBalance (an error propagates), then the
\* balance > 0 and lamportsToSend > 0 tests
SweepFetch(ok) ==
    /\ dpc = "sweepFetch"
    /\ IF ~ok THEN dpc' = "aborted" /\ UNCHANGED sweepSent
       ELSE IF genBal > 0 /\ genBal - TransactionFee > 0
            THEN dpc' = "sweepXfer" /\ sweepSent' = genBal - TransactionFee
            ELSE dpc' = "log" /\ UNCHANGED sweepSent
    /\ UNCHANGED <<dEntry, dTargets, amountToSend, genBal, funded, seenBal, xfer,
                   attempts, results, returned, sweepStarted, monitored>>
    /\ UNCHANGED <<rvars, cvars, lvars, svars, ivars, mvars, pvars, fvars>>

\* the sweep-back transfer confirms, or throws out of returnRemainingFunds
SweepXfer(ok) ==
    /\ dpc = "sweepXfer"
    /\ IF ok THEN dpc' = "log" /\ genBal' = genBal - sweepSent - TransactionFee
       ELSE dpc' = "aborted" /\ UNCHANGED genBal
    /\ UNCHANGED <<dEntry, dTargets, amountToSend, funded, seenBal, xfer, attempts,
                   results, returned, sweepStarted, sweepSent, monitored>>
    /\ UNCHANGED <<rvars, cvars, lvars, svars, ivars, mvars, pvars, fvars>>

\* logTransactionDetails: appendToMonitoredFile(logEntry)
LogDetails ==
    /\ dpc = "log"
    /\ monitored' = Append(monitored, LogEntry(dTargets, results))
    /\ dpc' = "done"
    /\ UNCHANGED <<dEntry, dTargets, amountToSend, genBal, funded, seenBal, xfer,
                   attempts, results, returned, sweepStarted, sweepSent>>
    /\ UNCHANGED <<rvars, cvars, lvars, svars, ivars, mvars, pvars, fvars>>

NextDispatch ==
    \/ \E e \in EntryPoints, n \in 1..MaxDispatchTargets : Confirm(e, n)
    \/ FundOk
    \/ FundFail
    \/ \E ok \in BOOLEAN : PostFundBalance(ok)
    \/ \E ok \in BOOLEAN : RentCheck(ok)
    \/ \E i \in 1..MaxDispatchTargets, how \in Settlements : Settle(i, how)
    \/ \E i \in 1..MaxDispatchTargets, ok \in BOOLEAN : GetLogsDone(i, ok)
    \/ FanoutDone
    \/ \E ok \in BOOLEAN : SweepFetch(ok)
    \/ \E ok \in BOOLEAN : SweepXfer(ok)
    \/ LogDetails

\* ----------------------------------------------- properties of the dispatcher
Issued(i) == xfer[i] # "none"
Failed == {i \in DOMAIN xfer : xfer[i] \in {"fail", "rejected"}}
RentFloorPassed == seenBal.st = "value" /\ seenBal.v >= MinBalanceForRent
RentFloorMissed == seenBal.st = "value" /\ seenBal.v < MinBalanceForRent

\* C1: within one dispatch, from either entry point, a target transfer is issued
\* only after the funding transfer was confirmed, and the sweep-back starts only
\* when no issued target transfer is still unsettled.
C1_DispatchOrdering ==
    /\ dEntry \in EntryPoints \cup {"none"}
    /\ (\E i \in DOMAIN xfer : Issued(i)) => funded = "confirmed"
    /\ sweepStarted => /\ funded = "confirmed"
                       /\ \A i \in DOMAIN xfer : xfer[i] \notin {"inflight", "logs"}

\* a dispatch from the monitoring view reaches the sweep after a settled fan-out
\* in which one transfer succeeded and one failed
C1_Witness ==
    /\ dEntry = "monitor"
    /\ sweepStarted
    /\ \E i, j \in DOMAIN xfer : xfer[i] = "ok" /\ xfer[j] = "fail"

\* C2: every recorded TransactionLogEntry has status Success if and only if every
\* target listed in it has its success flag set.
C2_StatusIffAllTargetsSucceeded ==
    \A k \in 1..Len(monitored) :
        (monitored[k].transactionStatus = "Success")
            <=> \A i \in 1..Len(monitored[k].targets) :
                    monitored[k].targets[i].sentSuccessful

\* C3: once the rent check has passed, every target has exactly one transfer
\* submitted and a dispatch that has ended has returned its outcomes; the returned
\* outcomes are one per target, in target order, each telling that target's own
\* result; and when exactly one transfer failed, exactly one outcome and one
\* listed target is unsuccessful and the logged status is Partial Failure.
C3_OneOutcomePerTarget ==
    /\ RentFloorPassed => \A i \in DOMAIN dTargets : attempts[i] = 1
    /\ (RentFloorPassed /\ dpc \in {"done", "aborted"}) => returned
    /\ (RentFloorPassed /\ returned) =>
          /\ Len(results) = Len(dTargets)
          /\ \A i \in DOMAIN dTargets :
                /\ results[i].target = dTargets[i]
                /\ results[i].success <=> (xfer[i] = "ok")
          /\ Cardinality(Failed) = 1 =>
                /\ Cardinality({i \in 1..Len(results) : ~results[i].success}) = 1
                /\ \A k \in 1..Len(monitored) :
                      /\ monitored[k].transactionStatus = "Partial Failure"
                      /\ \A i \in DOMAIN dTargets :
                            monitored[k].targets[i].sentSuccessful <=> i \notin Failed

\* C4: when the balance read at the start of the fan-out is below the rent floor,
\* no target transfer is submitted and the fan-out returns zero outcomes.
C4_RentRefusal ==
    RentFloorMissed =>
        /\ \A i \in DOMAIN xfer : xfer[i] = "none" /\ attempts[i] = 0
        /\ returned
        /\ results = <<>>

\* a funded dispatch whose wallet holds less than the floor has been refused
C4_Witness ==
    /\ funded = "confirmed"
    /\ RentFloorMissed
    /\ returned
    /\ Len(dTargets) >= 2

\* C5: when the funding transfer fails the dispatch stops: no target transfer is
\* submitted, the sweep-back is never started and nothing is logged.
C5_FundingFailureStops ==
    funded = "failed" =>
        /\ dpc = "aborted"
        /\ \A i \in DOMAIN xfer : xfer[i] = "none" /\ attempts[i] = 0
        /\ ~returned
        /\ ~sweepStarted
        /\ sweepSent = 0
        /\ monitored = <<>>

\* the funding transfer of a dispatch with targets has failed
C5_Witness ==
    /\ funded = "failed"
    /\ dpc = "aborted"
    /\ Len(dTargets) >= 1

\* C22: every dispatch whose funding was confirmed ends with exactly one
\* TransactionLogEntry recorded, whether all, some or none of the target
\* transfers succeeded and also when the sweep-back transfer fails.
C22_FundedDispatchLogged ==
    (funded = "confirmed" /\ dpc \in {"done", "aborted"}) => Len(monitored) = 1

\* C32: for every configured amountPerTarget > 0 and every target count n >= 1,
\* once the funding transfer of ceil((amountPerTarget * n + 0.002) SOL in lamports)
\* is confirmed into a previously empty dispatch wallet, the rent-floor check
\* (balance >= 0.00203928 SOL) passes, so a freshly funded dispatch is never
\* aborted for insufficient rent.
C32_FundedWalletPassesRentCheck ==
    (/\ funded = "confirmed"
     /\ seenBal.st = "value"
     /\ seenBal.v = TotalAmount(amountToSend, Len(dTargets)))
        => ~RentRefused(seenBal)

\* ------------------------------------------------------------ the sweep-backs
\* the balances a dispatch wallet can hold when a sweep-back is called: around the
\* fee buffer, and the rest of a dispatch
WalletBalances == {0, 1, 4999, 5000, 5001, 10000, 1995000}

SweepOperations == {"returnRemainingFunds", "sendAllSolToMainWallet"}

\* the test under which the operation goes on to build and submit its transfer:
\* returnRemainingFunds: if (balance > 0) { ... if (lamportsToSend > 0)
\* sendAllSolToMainWallet: if (balance > 0)
Submits(by, balance) ==
    IF by = "returnRemainingFunds"
    THEN balance > 0 /\ balance - TransactionFee > 0
    ELSE balance > 0

\* lamports: lamportsToSend, and lamports: balance - 5000
LamportsToSend(balance) == balance - TransactionFee

InitSweep ==
    /\ walletBal \in WalletBalances
    /\ mpc = "idle"
    /\ submitted = <<>>
    \* the other components are not running
    /\ dpc = "off" /\ dEntry = "none" /\ dTargets = <<>> /\ amountToSend = 0
    /\ genBal = 0 /\ funded = "no" /\ seenBal = [st |-> "unread", v |-> 0]
    /\ xfer = <<>> /\ attempts = <<>> /\ results = <<>> /\ returned = FALSE
    /\ sweepStarted = FALSE /\ sweepSent = 0 /\ monitored = <<>>
    /\ rpc = "off" /\ rActive = "ACT" /\ rHistory = <<>>
    /\ bal = <<>>
    /\ minSolTarget = 0 /\ maxTargets = 0 /\ rTargets = <<>> /\ rLastMin = 0
    /\ rPasses = <<>> /\ elapsed = 0 /\ rCalls = <<>>
    /\ generatedKeypairs = <<>> /\ activeAddresses = <<>>
    /\ similarAddresses = <<>> /\ tasks = EmptyBag
    /\ tokens = 0 /\ timePassed = 0 /\ lpc = <<>> /\ waited = <<>>
    /\ grantAges = <<>>
    /\ autoMode = FALSE /\ starts = 0 /\ loading = EmptyBag /\ generatorLoops = 0
    /\ exploreLoops = EmptyBag /\ terminated = <<>> /\ sockets = 0
    /\ reconnects = 0 /\ handlers = EmptyBag /\ unhandled = FALSE
    /\ addressesToExplore = <<>> /\ exploreArray = <<>> /\ epc = "off"
    /\ lastReturn = <<>> /\ queueAdds = <<>>
    /\ targetAddresses = <<>>
    /\ dataFiles = FilesOff /\ tempFiles = NoTemps
    /\ writes = EmptyBag /\ writeCalls = 0

SweepFrame == UNCHANGED <<dvars, rvars, cvars, lvars, svars, ivars, pvars, fvars>>

\* the dispatcher calls returnRemainingFunds, or the operator chooses
\* 'Send All SOL to Main Wallet' in the monitoring view: connection.getBalance
SweepCall(by) ==
    /\ mpc = "idle"
    /\ Len(submitted) < MaxSweeps
    /\ mpc' = by
    /\ UNCHANGED <<walletBal, submitted>>
    /\ SweepFrame

\* getBalance returns (an exception leaves the operation): the tests are made and
\* the transfer is built with its lamports and submitted
SweepBalance(ok) ==
    /\ mpc \in SweepOperations
    /\ IF ok /\ Submits(mpc, walletBal)
       THEN /\ submitted' = Append(submitted,
                                   [by |-> mpc, balance |-> walletBal,
                                    lamports |-> LamportsToSend(walletBal)])
            /\ mpc' = "xfer"
       ELSE /\ mpc' = "idle"
            /\ UNCHANGED submitted
    /\ UNCHANGED walletBal
    /\ SweepFrame

\* sendAndConfirmTransaction confirms (the ledger moves the lamports and charges
\* the fee; it accepts no negative amount and no overdraft) or throws
SweepSettle(ok) ==
    /\ mpc = "xfer"
    /\ LET lamports == submitted[Len(submitted)].lamports
       IN  IF ok
           THEN /\ lamports >= 0
                /\ walletBal >= lamports + TransactionFee
                /\ walletBal' = walletBal - lamports - TransactionFee
           ELSE UNCHANGED walletBal
    /\ mpc' = "idle"
    /\ UNCHANGED submitted
    /\ SweepFrame

\* another party transfers lamports to the wallet
Deposit(lamports) ==
    /\ walletBal + lamports \in WalletBalances
    /\ walletBal' = walletBal + lamports
    /\ UNCHANGED <<mpc, submitted>>
    /\ SweepFrame

NextSweep ==
    \/ \E by \in SweepOperations : SweepCall(by)
    \/ \E ok \in BOOLEAN : SweepBalance(ok)
    \/ \E ok \in BOOLEAN : SweepSettle(ok)
    \/ \E lamports \in {1, 4999, 5000} : Deposit(lamports)

\* C23: a sweep-back (the dispatcher's returnRemainingFunds and the monitoring
\* view's sendAllSolToMainWallet) submits a transfer only when the wallet's
\* remaining balance exceeds the fee buffer of 5000 lamports, and then for
\* exactly balance - 5000; at or below the buffer no transfer is submitted, so no
\* sweep transfer carries a zero or negative amount.
C23_SweepOnlyAboveFeeBuffer ==
    \A i \in 1..Len(submitted) :
        /\ submitted[i].balance > TransactionFee
        /\ submitted[i].lamports = submitted[i].balance - TransactionFee
        /\ submitted[i].lamports > 0

\* ======================================================== TARGET RESOLVER

SignatureLimit == 50
TimeBudgetMs == 10000

DefaultAddress == "11111111111111111111111111111111"
StakeHistory == "SysvarStakeHistory1111111111111111111111111"

EXCLUDED_ADDRESSES == {
    "Vote111111111111111111111111111111111111111",
    "SysvarStakeHistory1111111111111111111111111",
    "Stake11111111111111111111111111111111111111",
    "SysvarC1ock11111111111111111111111111111111",
    "ComputeBudget111111111111111111111111111111",
    "TokenkegQfeZyiNwAJbNbGKPFXCWuBvf9Ss623VQ5DA",
    "ATokenGPvbdGVxr1b2hvZbsiqW5xWH25efTNsLJA8knL",
    "11111111111111111111111111111111" }

\* the ledger's addresses: five wallets, the active wallet ACT, a program that is on
\* no list, a sysvar account and the system program (the default public key)
LedgerAddrs == {"W1", "W2", "W3", "W4", "W5", "ACT", "Prog", StakeHistory, DefaultAddress}
Programs == {"Prog", DefaultAddress}

Ledgers == {
    [a \in LedgerAddrs |->
        CASE a = "W1" -> 500000000
          [] a = "W2" -> 5000000
          [] a = "W3" -> 2000000000
          [] a = "W4" -> 20000000
          [] a = "W5" -> 0
          [] a = "ACT" -> 2000000000
          [] a = "Prog" -> 1141440
          [] a = StakeHistory -> 114979200
          [] OTHER -> 1],
    [a \in LedgerAddrs |->
        CASE a = "W1" -> 0
          [] a = "W2" -> 500000000
          [] a = "W3" -> 20000000
          [] a = "W4" -> 5000000
          [] a = "W5" -> 30000000
          [] a = "ACT" -> 5000000
          [] a = "Prog" -> 1500000000
          [] a = StakeHistory -> 114979200
          [] OTHER -> 20000000] }

ActiveChoices == {"ACT", StakeHistory, DefaultAddress}
MinTargetChoices == {10000000, 400000000}
PassDurations == {4000, 6000}

\* connection.getTransaction: a loaded transaction with its message.accountKeys, or null
Tx(keys) == [loaded |-> TRUE, accountKeys |-> keys]
NullTx == [loaded |-> FALSE, accountKeys |-> <<>>]
TxPool == {
    Tx(<<"ACT", "W1", "W2", DefaultAddress>>),
    Tx(<<"W3", "ACT", "W4", "W5", "Prog">>),
    Tx(<<"W1", StakeHistory, "W3">>),
    Tx(<<"W5", "W2">>),
    NullTx }

RECURSIVE SeqsUpTo(_, _)
SeqsUpTo(S, n) ==
    IF n = 0 THEN {<<>>}
    ELSE LET shorter == SeqsUpTo(S, n - 1)
         IN  shorter \cup {Append(q, x) : q \in shorter, x \in S}

Range(q) == {q[i] : i \in 1..Len(q)}

\* connection.getAccountInfo on the ledger: an address holding no lamports has no
\* account (null); a program's account is executable
AccountInfo(a) ==
    IF bal[a] = 0 THEN "null" ELSE IF a \in Programs THEN "executable" ELSE "plain"

\* accountInfo?.executable || !accountInfo || EXCLUDED_ADDRESSES.includes(...)
SkipKey(a) ==
    AccountInfo(a) = "executable" \/ AccountInfo(a) = "null" \/ a \in EXCLUDED_ADDRESSES

\* the inner loop over one transaction's accountKeys, adding to addressSet (a Set
\* keeps insertion order and ignores a value it already holds)
RECURSIVE CollectKeys(_, _, _)
CollectKeys(keys, active, addressSet) ==
    IF keys = <<>> THEN addressSet
    ELSE LET k == Head(keys)
             next == IF SkipKey(k) THEN addressSet
                     ELSE IF k # DefaultAddress /\ k # active /\ k \notin Range(addressSet)
                          THEN Append(addressSet, k)
                          ELSE addressSet
         IN  CollectKeys(Tail(keys), active, next)

\* the outer loop over the signatures; a transaction that did not load is skipped
RECURSIVE CollectHistory(_, _, _)
CollectHistory(txs, active, addressSet) ==
    IF txs = <<>> THEN addressSet
    ELSE LET tx == Head(txs)
             next == IF ~tx.loaded THEN addressSet
                     ELSE CollectKeys(tx.accountKeys, active, addressSet)
         IN  CollectHistory(Tail(txs), active, next)

\* batchGetBalances and the balance >= minSolTarget filter
RECURSIVE FilterByBalance(_, _)
FilterByBalance(addrs, minSol) ==
    IF addrs = <<>> THEN <<>>
    ELSE LET a == Head(addrs)
             rest == FilterByBalance(Tail(addrs), minSol)
         IN  IF bal[a] >= minSol
             THEN <<[publicKey |-> a, balance |-> bal[a]]>> \o rest
             ELSE rest

\* targets.slice(0, settings.maxTargets)
SliceNone(targets, n) == targets
Slice(targets, n) == SubSeq(targets, 1, Min2(Len(targets), n))

\* every target of a pass before the cap: history accounts, then the active wallet
CandidatesActiveFirst(active, minSol) ==
    LET signatures == SubSeq(rHistory, 1, Min2(Len(rHistory), SignatureLimit))
        addressArray == CollectHistory(signatures, active, <<>>)
        targets == FilterByBalance(addressArray, minSol)
    IN  IF bal[active] >= minSol
        THEN <<[publicKey |-> active, balance |-> bal[active]]>> \o targets
        ELSE targets
Candidates(active, minSol) ==
    LET signatures == SubSeq(rHistory, 1, Min2(Len(rHistory), SignatureLimit))
        addressArray == CollectHistory(signatures, active, <<>>)
        targets == FilterByBalance(addressArray, minSol)
    IN  IF bal[active] >= minSol
        THEN Append(targets, [publicKey |-> active, balance |-> bal[active]])
        ELSE targets

GetTargets(active, minSol) == Slice(Candidates(active, minSol), maxTargets)

\* saveTargetAddresses(targets): the function of data.js declares no parameter and
\* writes Array.from(targetAddresses.entries()) as {publicKey, ...value}
SaveTargetAddresses(targets, map) == map

\* the outbound calls of one getTargets pass, in the order they are made: the
\* signature fetch, per signature the transaction fetch and, for a loaded
\* transaction, one account lookup per account key, then one balance fetch per
\* collected address (batchGetBalances) and the active wallet's balance fetch;
\* transaction.js makes them on the connection with no rateLimiter.waitForToken()
KeyCalls(keys) == [i \in 1..Len(keys) |-> "getAccountInfo"]

RECURSIVE HistoryCalls(_)
HistoryCalls(txs) ==
    IF txs = <<>> THEN <<>>
    ELSE <<"getTransaction">>
         \o (IF Head(txs).loaded THEN KeyCalls(Head(txs).accountKeys) ELSE <<>>)
         \o HistoryCalls(Tail(txs))

BatchCalls(active) ==
    LET signatures == SubSeq(rHistory, 1, Min2(Len(rHistory), SignatureLimit))
        addressArray == CollectHistory(signatures, active, <<>>)
    IN  [i \in 1..Len(addressArray) |-> "getBalance"]

CallsOfPass(active) ==
    LET signatures == SubSeq(rHistory, 1, Min2(Len(rHistory), SignatureLimit))
    IN  <<"getSignaturesForAddress">> \o HistoryCalls(signatures)
        \o BatchCalls(active) \o <<"getBalance">>

\* the calls that can fail: the four fetches of the loops and the batch
FailingCalls == {"getSignaturesForAddress", "getTransaction", "getAccountInfo",
                 "batchGetBalances", "getBalance"}

\* the calls a pass has made when the first call of kind k throws: the calls up
\* to that one (Promise.all has issued the whole batch when one of it rejects);
\* <<>> when the pass makes no call of that kind
IssuedBeforeFailure(active, k) ==
    LET calls == CallsOfPass(active)
        hits == {i \in 1..Len(calls) : calls[i] = k}
    IN  CASE k = "batchGetBalances" ->
                IF BatchCalls(active) = <<>> THEN <<>>
                ELSE SubSeq(calls, 1, Len(calls) - 1)
          [] k = "getBalance" -> calls
          [] OTHER ->
                IF hits = {} THEN <<>>
                ELSE SubSeq(calls, 1, CHOOSE i \in hits : \A j \in hits : i <= j)

\* viewTargets and sendTransactionFromViewedWallet call clearTargetAddresses()
\* right before getTargetsWithTimeout: the Map and the file are empty
InitResolve ==
    /\ rpc = "start"
    /\ rActive \in ActiveChoices
    /\ rHistory \in SeqsUpTo(TxPool, MaxHistory)
    /\ bal \in Ledgers
    /\ minSolTarget \in MinTargetChoices
    /\ maxTargets \in 0..MaxTargetsSetting
    /\ rTargets = <<>>
    /\ rLastMin = 0
    /\ rPasses = <<>>
    /\ elapsed = 0
    /\ rCalls = <<>>
    \* the other components are not running
    /\ dpc = "off" /\ dEntry = "none" /\ dTargets = <<>> /\ amountToSend = 0
    /\ genBal = 0 /\ funded = "no" /\ seenBal = [st |-> "unread", v |-> 0]
    /\ xfer = <<>> /\ attempts = <<>> /\ results = <<>> /\ returned = FALSE
    /\ sweepStarted = FALSE /\ sweepSent = 0 /\ monitored = <<>>
    /\ generatedKeypairs = <<>> /\ activeAddresses = <<>>
    /\ similarAddresses = <<>> /\ tasks = EmptyBag
    /\ tokens = 0 /\ timePassed = 0 /\ lpc = <<>> /\ waited = <<>>
    /\ grantAges = <<>>
    /\ autoMode = FALSE /\ starts = 0 /\ loading = EmptyBag /\ generatorLoops = 0
    /\ exploreLoops = EmptyBag /\ terminated = <<>> /\ sockets = 0
    /\ reconnects = 0 /\ handlers = EmptyBag /\ unhandled = FALSE
    /\ addressesToExplore = <<>> /\ exploreArray = <<>> /\ epc = "off"
    /\ lastReturn = <<>> /\ queueAdds = <<>>
    /\ walletBal = 0 /\ mpc = "off" /\ submitted = <<>>
    /\ targetAddresses = <<>>
    /\ dataFiles = EmptyFiles /\ tempFiles = NoTemps
    /\ writes = EmptyBag /\ writeCalls = 0

\* let targets = await getTargets(activeWallet, minSolTarget)
FirstPass(d) ==
    /\ rpc = "start"
    /\ rTargets' = GetTargets(rActive, minSolTarget)
    /\ rLastMin' = minSolTarget
    /\ rPasses' = Append(rPasses, "ordinary")
    /\ elapsed' = elapsed + d
    /\ rCalls' = CallsOfPass(rActive)
    /\ rpc' = "loop"
    /\ UNCHANGED <<rActive, rHistory, bal, minSolTarget, maxTargets>>
    /\ dataFiles' = [dataFiles EXCEPT !["target"] =
            Json(SaveTargetAddresses(Candidates(rActive, minSolTarget),
                                     targetAddresses))]
    /\ UNCHANGED <<targetAddresses, tempFiles, writes, writeCalls>>
    /\ UNCHANGED <<dvars, cvars, lvars, svars, ivars, mvars>>

\* while (targets.length < settings.maxTargets && Date.now() - start < 10000)
LoopContinuesWhileShort == Len(rTargets) < maxTargets
LoopContinues == Len(rTargets) < maxTargets /\ elapsed < TimeBudgetMs

RepeatPass(d) ==
    /\ rpc = "loop"
    /\ LoopContinues
    /\ rTargets' = GetTargets(rActive, minSolTarget)
    /\ rLastMin' = minSolTarget
    /\ rPasses' = Append(rPasses, "ordinary")
    /\ elapsed' = elapsed + d
    /\ rCalls' = CallsOfPass(rActive)
    /\ UNCHANGED <<rpc, rActive, rHistory, bal, minSolTarget, maxTargets>>
    /\ dataFiles' = [dataFiles EXCEPT !["target"] =
            Json(SaveTargetAddresses(Candidates(rActive, minSolTarget),
                                     targetAddresses))]
    /\ UNCHANGED <<targetAddresses, tempFiles, writes, writeCalls>>
    /\ UNCHANGED <<dvars, cvars, lvars, svars, ivars, mvars>>

\* the loop ends; if (targets.length < settings.maxTargets) the operator is asked
LoopExitAlwaysAsks ==
    /\ rpc = "loop"
    /\ ~LoopContinues
    /\ rpc' = "ask"
    /\ UNCHANGED <<rActive, rHistory, bal, minSolTarget, maxTargets, rTargets,
                   rLastMin, rPasses, elapsed, rCalls>>
    /\ UNCHANGED <<dvars, cvars, lvars, svars, ivars, mvars, pvars, fvars>>
LoopExit ==
    /\ rpc = "loop"
    /\ ~LoopContinues
    /\ rpc' = IF Len(rTargets) < maxTargets THEN "ask" ELSE "done"
    /\ UNCHANGED <<rActive, rHistory, bal, minSolTarget, maxTargets, rTargets,
                   rLastMin, rPasses, elapsed, rCalls>>
    /\ UNCHANGED <<dvars, cvars, lvars, svars, ivars, mvars, pvars, fvars>>

\* the operator answers; if (lowerMinSol) targets = await getTargets(activeWallet, 0)
Answer(lowerMinSol, d) ==
    /\ rpc = "ask"
    /\ IF lowerMinSol
       THEN /\ rTargets' = GetTargets(rActive, 0)
            /\ rLastMin' = 0
            /\ rPasses' = Append(rPasses, "relaxed")
            /\ elapsed' = elapsed + d
            /\ rCalls' = CallsOfPass(rActive)
            /\ dataFiles' = [dataFiles EXCEPT !["target"] =
                    Json(SaveTargetAddresses(Candidates(rActive, 0),
                                             targetAddresses))]
       ELSE UNCHANGED <<rTargets, rLastMin, rPasses, elapsed, rCalls, dataFiles>>
    /\ rpc' = "done"
    /\ UNCHANGED <<rActive, rHistory, bal, minSolTarget, maxTargets>>
    /\ UNCHANGED <<targetAddresses, tempFiles, writes, writeCalls>>
    /\ UNCHANGED <<dvars, cvars, lvars, svars, ivars, mvars>>

\* a call of a getTargets pass throws (a transient RPC failure): getTargets and
\* getTargetsWithTimeout have no try/catch, so the exception rejects the pass, the
\* assignment to targets never happens and getTargetsWithTimeout rejects to its
\* caller; the pass is the first one, a repeat of the loop or the relaxed one
PassFails(k) ==
    /\ rpc \in {"start", "loop", "ask"}
    /\ rpc = "loop" => LoopContinues
    /\ IssuedBeforeFailure(rActive, k) # <<>>
    /\ rCalls' = IssuedBeforeFailure(rActive, k)
    /\ rpc' = "rejected"
    /\ UNCHANGED <<rActive, rHistory, bal, minSolTarget, maxTargets, rTargets,
                   rLastMin, rPasses, elapsed>>
    /\ UNCHANGED <<dvars, cvars, lvars, svars, ivars, mvars, pvars, fvars>>

NextResolve ==
    \/ \E d \in PassDurations : FirstPass(d)
    \/ \E d \in PassDurations : RepeatPass(d)
    \/ LoopExit
    \/ \E lowerMinSol \in BOOLEAN, d \in PassDurations : Answer(lowerMinSol, d)
    \/ \E k \in FailingCalls : PassFails(k)

\* ------------------------------------------------- properties of the resolver
PassMade == rpc \in {"loop", "ask", "done"}

\* the account keys of the loaded transactions, in the order the pass meets them
RECURSIVE Flatten(_)
Flatten(txs) ==
    IF txs = <<>> THEN <<>>
    ELSE (IF Head(txs).loaded THEN Head(txs).accountKeys ELSE <<>>) \o Flatten(Tail(txs))
Discovered == Flatten(rHistory)
FirstIdx(a) == CHOOSE i \in 1..Len(Discovered) :
                   Discovered[i] = a /\ \A j \in 1..(i - 1) : Discovered[j] # a

\* C6: whatever pass produced it (ordinary, repeated or relaxed), the wrapper's
\* target list never holds more than maxTargets entries.
C6_AtMostMaxTargets == PassMade => Len(rTargets) <= maxTargets

\* the relaxed pass found more candidates than maxTargets and returned maxTargets
C6_Witness ==
    /\ rpc = "done"
    /\ Len(rPasses) >= 2
    /\ rPasses[Len(rPasses)] = "relaxed"
    /\ maxTargets >= 2
    /\ Len(rTargets) = maxTargets
    /\ Len(Candidates(rActive, 0)) > maxTargets

\* C7: no returned target is on the exclusion list or is the default address.
C7_NoExcludedTarget ==
    PassMade => \A i \in 1..Len(rTargets) :
                    /\ rTargets[i].publicKey \notin EXCLUDED_ADDRESSES
                    /\ rTargets[i].publicKey # DefaultAddress

\* the result of the latest pass is: the history accounts that satisfy Q and hold
\* at least the minimum, in discovery order, then the active wallet when it holds
\* the minimum, the whole cut to maxTargets
PassReturns(Q(_)) ==
    LET hist == {a \in Range(Discovered) : Q(a) /\ a # rActive /\ bal[a] >= rLastMin}
        activeQualifies == bal[rActive] >= rLastMin
        full == Cardinality(hist) + (IF activeQualifies THEN 1 ELSE 0)
        T == rTargets
    IN  /\ Len(T) = Min2(maxTargets, full)
        /\ \A i \in 1..Len(T) :
              /\ T[i].balance = bal[T[i].publicKey]
              /\ \/ T[i].publicKey \in hist
                 \/ /\ T[i].publicKey = rActive
                    /\ activeQualifies
                    /\ i = Cardinality(hist) + 1
        /\ \A i, j \in 1..Len(T) :
              (i < j /\ T[i].publicKey \in hist /\ T[j].publicKey \in hist)
                  => FirstIdx(T[i].publicKey) < FirstIdx(T[j].publicKey)
        /\ \A i \in 1..Len(T) : \A a \in hist :
              (T[i].publicKey \in hist /\ FirstIdx(a) < FirstIdx(T[i].publicKey))
                  => \E k \in 1..(i - 1) : T[k].publicKey = a

NotExcludedNotExecutable(a) ==
    a \notin EXCLUDED_ADDRESSES /\ AccountInfo(a) # "executable"
ExistsNotExcludedNotExecutable(a) ==
    AccountInfo(a) # "null" /\ a \notin EXCLUDED_ADDRESSES /\ AccountInfo(a) # "executable"

\* C8 as claimed: a pass returns the first maxTargets history accounts that are not
\* excluded, not executable and not the active address and hold the minimum, in
\* discovery order, followed by the active address when it qualifies.
C8_PassAsClaimed == PassMade => PassReturns(NotExcludedNotExecutable)

\* C8 amended: the same, over the history accounts that also have an account on the
\* ledger (getAccountInfo returned one).
C8_PassReturnsQualifying == PassMade => PassReturns(ExistsNotExcludedNotExecutable)

\* five history accounts holding 0.5, 0.005, 2.0, 0.02 and 0 SOL, minimum 0.01 and
\* maxTargets 3: the pass returned the accounts holding 0.5, 2.0 and 0.02
C8_Witness ==
    /\ PassMade
    /\ rActive = "ACT"
    /\ rLastMin = 10000000
    /\ maxTargets = 3
    /\ {"W1", "W2", "W3", "W4", "W5"} \subseteq Range(Discovered)
    /\ bal["W5"] = 0
    /\ rTargets = << [publicKey |-> "W1", balance |-> 500000000],
                     [publicKey |-> "W3", balance |-> 2000000000],
                     [publicKey |-> "W4", balance |-> 20000000] >>

\* an outbound call is gated when the call made just before it by the same
\* operation is its own rateLimiter.waitForToken()
Gated(calls) ==
    \A i \in 1..Len(calls) :
        calls[i] # "waitForToken" => (i > 1 /\ calls[i - 1] = "waitForToken")

\* C12: every outbound RPC call made by Address Ingestion, by the Target Resolver
\* and by the Fund Dispatcher is preceded by its own token acquisition from the
\* rate limiter (stated here for the calls of a resolution pass).
C12_EveryRpcCallGated == Gated(rCalls)

\* C20: a transient RPC failure during target resolution (signature fetch,
\* transaction fetch, account lookup or balance fetch) is absorbed at the
\* operation boundary: resolveTargets returns an empty or partial result and the
\* error never propagates to its caller.
C20_ResolverAbsorbsFailures == rpc # "rejected"

\* C24: after a resolution pass, the persisted target snapshot contains the full
\* candidate list computed by that pass (every qualifying target, before the
\* maxTargets cap is applied).
C24_SnapshotHoldsCandidates ==
    PassMade => dataFiles["target"] = Json(Candidates(rActive, rLastMin))

\* a step in which a pass of the given kind has run
PassRuns(kind) == rPasses' = Append(rPasses, kind)
Relaxed == {i \in 1..Len(rPasses) : rPasses[i] = "relaxed"}

\* a repeat of the ordinary pass starts only with the count short and the budget
\* not used up; no ordinary pass starts at or after the budget; and the loop is
\* left only with the count reached or the budget used up
RepeatsOnlyWithinBudget ==
    /\ (PassRuns("ordinary") /\ rPasses # <<>>) =>
            (Len(rTargets) < maxTargets /\ elapsed < TimeBudgetMs)
    /\ PassRuns("ordinary") => elapsed < TimeBudgetMs
    /\ (rpc = "loop" /\ rpc' \in {"ask", "done"}) =>
            (Len(rTargets) >= maxTargets \/ elapsed >= TimeBudgetMs)

\* C25: the timeout wrapper starts a further ordinary resolution pass only while
\* the latest pass returned fewer than maxTargets targets and less than 10 s have
\* elapsed since the wrapper started; it stops repeating as soon as either
\* condition fails, so no ordinary pass starts after the 10 s budget.
C25_RepeatsWithinBudget == [][RepeatsOnlyWithinBudget]_vars

\* three ordinary passes were made, the last one begun within the budget and ended
\* after it, and the loop was left with the count still short
C25_Witness ==
    /\ rpc = "ask"
    /\ Len(rPasses) = 3
    /\ elapsed >= TimeBudgetMs
    /\ Len(rTargets) < maxTargets

\* the relaxed pass runs only from the question, which is put only with the count
\* short; a loop left with the count reached ends the wrapper; an answer that
\* starts no pass leaves the targets as they were
RelaxedOnlyOnConfirm ==
    /\ PassRuns("relaxed") => (rpc = "ask" /\ Len(rTargets) < maxTargets /\ rLastMin' = 0)
    /\ (rpc = "loop" /\ rpc' \in {"ask", "done"}) =>
            (rpc' = "ask" <=> Len(rTargets) < maxTargets)
    /\ (rpc = "ask" /\ rpc' = "done" /\ rPasses' = rPasses) => rTargets' = rTargets

\* C26: the relaxed pass (minimum balance 0) runs at most once per wrapper call,
\* and only when the target count is still below maxTargets after the repeat loop
\* and the operator confirms; when the count reached maxTargets the operator is
\* not asked, and when the operator declines the result of the last ordinary pass
\* is returned unchanged.
C26_RelaxedPassAtMostOnce ==
    /\ [](Cardinality(Relaxed) <= 1)
    /\ [](rpc = "ask" => Len(rTargets) < maxTargets)
    /\ [][RelaxedOnlyOnConfirm]_vars

\* the operator declined after two ordinary passes that left the count short: the
\* wrapper ended with the targets of the last ordinary pass and no relaxed pass
C26_Witness ==
    /\ rpc = "done"
    /\ rPasses = <<"ordinary", "ordinary">>
    /\ 0 < Len(rTargets) /\ Len(rTargets) < maxTargets
    /\ rLastMin = minSolTarget
    /\ rTargets = GetTargets(rActive, minSolTarget)

\* ================================================== SIMILARITY CORRELATOR

\* MINIMUM_BALANCE = settings.minSolActive * 1e9, with the default minSolActive of 1
MINIMUM_BALANCE == 1000000000

\* addresses are strings: sequences of characters
A1 == <<"A","B","C","D","E","F","k","l","m","u","v","w","x","y","z">>
A2 == <<"A","B","X","D","E","F","k","l","m","u","v","w","x","y","q">>
A3 == <<"Z","B","C","D","E","F","k","l","m","u","v","w","x","y","z">>
G1 == <<"A","B","C","D","X","Y","n","o","p","u","v","w","x","y","z">>
G2 == <<"A","B","X","D","E","F","n","o","p","q","v","w","q","y","q">>
G3 == <<"A","B","C","D","E","F","n","o","p","q","q","q","q","q","q">>
ActiveCandidates == {A1, A2, A3}
GeneratedCandidates == {G1, G2, G3}

\* connection.getBalance for the candidate addresses
BalanceOf(a) == CASE a = A1 -> 2000000000 [] a = A2 -> 1000000000 [] a = A3 -> 500000000
                    [] OTHER -> 2000000000

\* String.prototype.slice(0, n) and slice(-n)
SliceFront(str, n) == SubSeq(str, 1, Min2(n, Len(str)))
SliceBack(str, n) == SubSeq(str, IF Len(str) > n THEN Len(str) - n + 1 ELSE 1, Len(str))

\* [...firstSix].filter((char, index) => char === generatedFirstSix[index]).length
FrontMatchesInPrefix(activePublicKey, generatedPublicKey) ==
    Cardinality({i \in 1..MIN_FRONT_SIMILARITY :
                    activePublicKey[i] = generatedPublicKey[i]})
FrontMatches(activePublicKey, generatedPublicKey) ==
    LET firstSix == SliceFront(activePublicKey, SliceSix)
        generatedFirstSix == SliceFront(generatedPublicKey, SliceSix)
    IN  Cardinality({i \in 1..Len(firstSix) :
                        i <= Len(generatedFirstSix) /\ firstSix[i] = generatedFirstSix[i]})

\* countEndMatches(lastSix, generatedLastSix)
CountEndMatches(lastSix, activeLastSix) ==
    Cardinality({i \in 1..Len(activeLastSix) :
                    i <= Len(lastSix) /\ activeLastSix[i] = lastSix[i]})

\* firstSix.slice(0, MIN_FRONT_SIMILARITY) === generatedFirstSix.slice(0, MIN_FRONT_SIMILARITY)
AcceptsByCount(activePublicKey, generatedPublicKey) ==
    FrontMatches(activePublicKey, generatedPublicKey) >= MIN_FRONT_SIMILARITY
Accepts(activePublicKey, generatedPublicKey) ==
    SliceFront(SliceFront(activePublicKey, SliceSix), MIN_FRONT_SIMILARITY)
        = SliceFront(SliceFront(generatedPublicKey, SliceSix), MIN_FRONT_SIMILARITY)

\* Array.from(similarAddresses).some(addr => addr.activeAddress === activePublicKey
\*                                   && addr.generatedPublicKey === generatedPublicKey)
AlreadyRecordedNever(sim, activePublicKey, generatedPublicKey) == FALSE
AlreadyRecorded(sim, activePublicKey, generatedPublicKey) ==
    \E i \in 1..Len(sim) : /\ sim[i].activeAddress = activePublicKey
                           /\ sim[i].generatedPublicKey = generatedPublicKey

SimilarAddress(activePublicKey, generatedPublicKey, activeBalance) ==
    [activeAddress |-> activePublicKey,
     generatedPublicKey |-> generatedPublicKey,
     activeBalance |-> activeBalance,
     frontMatches |-> FrontMatches(activePublicKey, generatedPublicKey),
     endMatches |-> CountEndMatches(SliceBack(activePublicKey, SliceSix),
                                    SliceBack(generatedPublicKey, SliceSix))]

\* the Map a correlation run iterates: generatedKeypairs.entries() is taken from
\* the Map that is generatedKeypairs when the run starts, and the run sees what is
\* inserted in it later; once loadExistingData has put a new Map in its place, the
\* run goes on over the old one, which nothing inserts in any more
LivePool == [live |-> TRUE, keys |-> <<>>]
OldPool(keys) == [live |-> FALSE, keys |-> keys]
PoolOf(t, pool) == IF t.pool.live THEN pool ELSE t.pool.keys

\* a call of checkAndAddAddress ("single") or of checkForExistingSimilarities
\* ("rescan") in flight: the address being correlated, the pool position it has
\* passed, whether it is in the loop ("scan") or awaiting the final save ("save"),
\* and for a re-scan the entry of activeAddresses it is at; for a call made from
\* a loop over account keys, rest is what that loop has still to go through
Task(kind, addr, balance, idx, phase, outer) ==
    [kind |-> kind, addr |-> addr, balance |-> balance, idx |-> idx,
     phase |-> phase, outer |-> outer, rest |-> <<>>, pool |-> LivePool]

One(t) == SetToBag({t})

\* findSimilarKeysForActiveAddresses from pool position idx up to its next await:
\* the loop runs on over the live pool until it adds a record (then awaits
\* appendToFile) or reaches the end (then awaits saveSimilarAddresses)
ScanStep(t, sim, pool) ==
    LET hits == {j \in (t.idx + 1)..Len(pool) :
                    /\ Accepts(t.addr, pool[j])
                    /\ ~AlreadyRecorded(sim, t.addr, pool[j])}
    IN  IF hits = {}
        THEN [task |-> [t EXCEPT !.idx = Len(pool), !.phase = "save", !.pool = LivePool],
              sim |-> sim]
        ELSE LET j == CHOOSE x \in hits : \A y \in hits : x <= y
             IN  [task |-> [t EXCEPT !.idx = j, !.phase = "scan"],
                  sim |-> Append(sim, SimilarAddress(t.addr, pool[j], t.balance))]

\* activeAddresses.set(address, {balance, lastActivity})
MapSet(m, k, b) ==
    IF \E i \in 1..Len(m) : m[i].publicKey = k
    THEN [i \in 1..Len(m) |-> IF m[i].publicKey = k THEN [publicKey |-> k, balance |-> b]
                              ELSE m[i]]
    ELSE Append(m, [publicKey |-> k, balance |-> b])

InitCorr ==
    /\ generatedKeypairs = <<>>
    /\ activeAddresses = <<>>
    /\ similarAddresses = <<>>
    /\ tasks = EmptyBag
    \* the other components are not running
    /\ dpc = "off" /\ dEntry = "none" /\ dTargets = <<>> /\ amountToSend = 0
    /\ genBal = 0 /\ funded = "no" /\ seenBal = [st |-> "unread", v |-> 0]
    /\ xfer = <<>> /\ attempts = <<>> /\ results = <<>> /\ returned = FALSE
    /\ sweepStarted = FALSE /\ sweepSent = 0 /\ monitored = <<>>
    /\ rpc = "off" /\ rActive = "ACT" /\ rHistory = <<>>
    /\ bal = <<>>
    /\ minSolTarget = 0 /\ maxTargets = 0 /\ rTargets = <<>> /\ rLastMin = 0
    /\ rPasses = <<>> /\ elapsed = 0 /\ rCalls = <<>>
    /\ tokens = 0 /\ timePassed = 0 /\ lpc = <<>> /\ waited = <<>>
    /\ grantAges = <<>>
    /\ autoMode = TRUE /\ starts = 1 /\ loading = EmptyBag /\ generatorLoops = 0
    /\ exploreLoops = EmptyBag /\ terminated = <<>> /\ sockets = 0
    /\ reconnects = 0 /\ handlers = EmptyBag /\ unhandled = FALSE
    /\ addressesToExplore = <<>> /\ exploreArray = <<>> /\ epc = "off"
    /\ lastReturn = <<>> /\ queueAdds = <<>>
    /\ walletBal = 0 /\ mpc = "off" /\ submitted = <<>>
    /\ targetAddresses = <<>>
    /\ dataFiles = FilesOff /\ tempFiles = NoTemps
    /\ writes = EmptyBag /\ writeCalls = 0

\* generateAndSaveKeypair: one pass of the body of while (autoMode) with the
\* generated key k
Generate(k) ==
    /\ autoMode
    /\ k \notin Range(generatedKeypairs)
    /\ generatedKeypairs' = Append(generatedKeypairs, k)
    /\ UNCHANGED <<activeAddresses, similarAddresses, tasks>>
    /\ UNCHANGED <<dvars, rvars, lvars, svars, ivars, mvars, pvars, fvars>>

\* checkAndAddAddress once its balance fetch has returned (called by an event-feed
\* handler, by the poll feed or by the queue re-check): a qualifying address is
\* recorded as active and its correlation run is due after appendToFile
CheckAndAddAddress(address) ==
    /\ BagCardinality(tasks) < MaxTasks
    /\ BalanceOf(address) >= MINIMUM_BALANCE
    /\ activeAddresses' = MapSet(activeAddresses, address, BalanceOf(address))
    /\ tasks' = tasks (+) One(Task("single", address, BalanceOf(address), 0, "scan", 0))
    /\ UNCHANGED <<generatedKeypairs, similarAddresses>>
    /\ UNCHANGED <<dvars, rvars, lvars, svars, ivars, mvars, pvars, fvars>>

\* a correlation run resumes after an await and runs to its next one
CorrelateStep(t) ==
    /\ BagIn(t, tasks)
    /\ t.phase = "scan"
    /\ LET r == ScanStep(t, similarAddresses, PoolOf(t, generatedKeypairs))
       IN  /\ tasks' = (tasks (-) One(t)) (+) One(r.task)
           /\ similarAddresses' = r.sim
    /\ UNCHANGED <<generatedKeypairs, activeAddresses>>
    /\ UNCHANGED <<dvars, rvars, lvars, svars, ivars, mvars, pvars, fvars>>

\* saveSimilarAddresses has completed and the run returns to checkAndAddAddress
CorrelateReturn(t) ==
    /\ BagIn(t, tasks)
    /\ t.kind = "single"
    /\ t.phase = "save"
    /\ tasks' = tasks (-) One(t)
    /\ UNCHANGED <<generatedKeypairs, activeAddresses, similarAddresses>>
    /\ UNCHANGED <<dvars, rvars, lvars, svars, ivars, mvars, pvars, fvars>>

\* the run of entry number outer of activeAddresses, from its call to its first await
RescanEntry(outer, sim) ==
    ScanStep(Task("rescan", activeAddresses[outer].publicKey,
                  activeAddresses[outer].balance, 0, "scan", outer),
             sim, generatedKeypairs)

\* checkForExistingSimilarities is called: the run for the first active address starts
StartRescan ==
    /\ BagCardinality(tasks) < MaxTasks
    /\ Len(activeAddresses) > 0
    /\ LET r == RescanEntry(1, similarAddresses)
       IN  /\ tasks' = tasks (+) One(r.task)
           /\ similarAddresses' = r.sim
    /\ UNCHANGED <<generatedKeypairs, activeAddresses>>
    /\ UNCHANGED <<dvars, rvars, lvars, svars, ivars, mvars, pvars, fvars>>

\* a run of the re-scan returns: the loop moves to the next entry of the live map
RescanNext(t) ==
    /\ BagIn(t, tasks)
    /\ t.kind = "rescan"
    /\ t.phase = "save"
    /\ IF t.outer < Len(activeAddresses)
       THEN LET r == RescanEntry(t.outer + 1, similarAddresses)
            IN  /\ tasks' = (tasks (-) One(t)) (+) One(r.task)
                /\ similarAddresses' = r.sim
       ELSE /\ tasks' = tasks (-) One(t)
            /\ UNCHANGED similarAddresses
    /\ UNCHANGED <<generatedKeypairs, activeAddresses>>
    /\ UNCHANGED <<dvars, rvars, lvars, svars, ivars, mvars, pvars, fvars>>

NextCorr ==
    \/ \E k \in GeneratedCandidates : Generate(k)
    \/ \E a \in ActiveCandidates : CheckAndAddAddress(a)
    \/ \E t \in BagToSet(tasks) : CorrelateStep(t)
    \/ \E t \in BagToSet(tasks) : CorrelateReturn(t)
    \/ StartRescan
    \/ \E t \in BagToSet(tasks) : RescanNext(t)

\* ----------------------------------------------- properties of the correlator
SamePrefix4(a, g) == \A i \in 1..4 : a[i] = g[i]
HasRecord(a, g) ==
    \E i \in 1..Len(similarAddresses) :
        /\ similarAddresses[i].activeAddress = a
        /\ similarAddresses[i].generatedPublicKey = g
RecordsOf(a) ==
    Cardinality({i \in 1..Len(similarAddresses) : similarAddresses[i].activeAddress = a})

\* every record pairs addresses with equal first 4 characters, and for every pool
\* keypair a run has passed, the record exists exactly when the first 4 agree
MatchesAreExactlyPrefixEqual ==
    /\ \A i \in 1..Len(similarAddresses) :
          SamePrefix4(similarAddresses[i].activeAddress,
                      similarAddresses[i].generatedPublicKey)
    /\ \A t \in BagToSet(tasks) :
          \A j \in 1..t.idx :
              HasRecord(t.addr, generatedKeypairs[j])
                  <=> SamePrefix4(t.addr, generatedKeypairs[j])

\* a run ends only once it has passed every keypair of the pool
RunEndsAtPoolEnd ==
    \A t \in BagToSet(tasks') :
        (t.phase = "save" /\ CopiesIn(t, tasks') > CopiesIn(t, tasks))
            => t.idx = Len(generatedKeypairs')

\* C9: a correlation run of A yields a record (A,G) for a pool keypair G if and only
\* if the first 4 characters of A and G are identical, whatever the front and end
\* match counts are; a run covers the whole pool before it ends.
C9_MatchIffPrefix == []MatchesAreExactlyPrefixEqual /\ [][RunEndsAtPoolEnd]_vars

\* a finished run of A1 = ABCDEF.. over a pool holding G1 = ABCDXY.. and
\* G2 = ABXDEF.. recorded (A1,G1) and not (A1,G2)
C9_Witness ==
    \E t \in BagToSet(tasks) :
        /\ t.addr = A1
        /\ t.phase = "save"
        /\ t.idx = Len(generatedKeypairs)
        /\ {G1, G2} \subseteq Range(generatedKeypairs)
        /\ HasRecord(A1, G1)
        /\ ~HasRecord(A1, G2)

NoDuplicateMatch ==
    \A i, j \in 1..Len(similarAddresses) :
        (/\ similarAddresses[i].activeAddress = similarAddresses[j].activeAddress
         /\ similarAddresses[i].generatedPublicKey = similarAddresses[j].generatedPublicKey)
            => i = j

\* once every matching pair of A is recorded, no step over an unchanged pool adds
\* a record for A
SecondRunAddsNothing ==
    \A a \in ActiveCandidates :
        (/\ \A j \in 1..Len(generatedKeypairs) :
                SamePrefix4(a, generatedKeypairs[j]) => HasRecord(a, generatedKeypairs[j])
         /\ generatedKeypairs' = generatedKeypairs)
            => RecordsOf(a)' = RecordsOf(a)

\* C10: correlation is idempotent, and under every interleaving of runs started by
\* the feeds, the queue re-check and the full re-scan the match set holds at most
\* one record per (activeAddress, generatedPublicKey).
C10_Idempotent == []NoDuplicateMatch /\ [][SecondRunAddsNothing]_vars

\* a run started by checkAndAddAddress and a run of the re-scan have both gone over
\* A1 and a pool with two matching keypairs; the match set holds the two records
C10_Witness ==
    /\ \E s, t \in BagToSet(tasks) :
          /\ s.kind = "single" /\ t.kind = "rescan"
          /\ s.addr = A1 /\ t.addr = A1
          /\ s.phase = "save" /\ t.phase = "save"
    /\ {G1, G3} \subseteq Range(generatedKeypairs)
    /\ RecordsOf(A1) = 2

\* the number of the first six positions at which a and g agree, and of the last
\* six, counted from the end of each string
AgreeingFront(a, g) == Cardinality({i \in 1..SliceSix : a[i] = g[i]})
AgreeingBack(a, g) ==
    Cardinality({i \in 1..SliceSix : a[Len(a) - SliceSix + i] = g[Len(g) - SliceSix + i]})

\* C30: every record in the similarity-match set has 4 <= frontMatches <= 6 and
\* 0 <= endMatches <= 6, where frontMatches and endMatches are the numbers of
\* positions at which the first 6 and the last 6 characters of the active address
\* and of the generated public key agree.
C30_MatchCountsInRange ==
    \A i \in 1..Len(similarAddresses) :
        LET r == similarAddresses[i]
        IN  /\ r.frontMatches = AgreeingFront(r.activeAddress, r.generatedPublicKey)
            /\ r.endMatches = AgreeingBack(r.activeAddress, r.generatedPublicKey)
            /\ MIN_FRONT_SIMILARITY <= r.frontMatches /\ r.frontMatches <= SliceSix
            /\ 0 <= r.endMatches /\ r.endMatches <= SliceSix

\* the match set holds (A1,G1) with 4 front and 6 end matches, and (A1,G3) with
\* 6 front matches and no end match
C30_Witness ==
    \E i, j \in 1..Len(similarAddresses) :
        /\ similarAddresses[i].activeAddress = A1
        /\ similarAddresses[i].generatedPublicKey = G1
        /\ similarAddresses[i].frontMatches = 4
        /\ similarAddresses[i].endMatches = 6
        /\ similarAddresses[j].activeAddress = A1
        /\ similarAddresses[j].generatedPublicKey = G3
        /\ similarAddresses[j].frontMatches = 6
        /\ similarAddresses[j].endMatches = 0

\* ============================================================ RATE LIMITER

\* new RateLimiter(maxRequests, perSeconds)
maxRequests == 2
perSeconds == 1

\* time moves on a grid of TickMs: Date.now() differences are multiples of it, so
\* that timePassed / 1000 and every token count are exact binary fractions and the
\* double-precision arithmetic of refillTokens is exact
TickMs == 250

\* setTimeout(resolve, 100): the timer of a sleeping call has expired one tick later
PollIntervalMs == 100

\* tokens are counted in quanta: one quantum is what the bucket refills in one tick
QuantaPerToken == (1000 * perSeconds) \div (TickMs * maxRequests)
Capacity == maxRequests * QuantaPerToken

\* a rolling window of perSeconds seconds, in ticks
WindowTicks == (1000 * perSeconds) \div TickMs

\* this.tokens > -1 always, so a longer timePassed refills to the cap all the same
TimePassedCap == Capacity + QuantaPerToken

Callers == 1..MaxCallers

\* refillAmount = (timePassed / 1000) * (this.maxRequests / this.perSeconds), in quanta
RefillAmount(tp) == (tp * TickMs * maxRequests * QuantaPerToken) \div (1000 * perSeconds)

\* this.tokens = Math.min(this.maxRequests, this.tokens + refillAmount)
RefillTokens(tok, tp) == Min2(Capacity, tok + RefillAmount(tp))

InitLimiter ==
    /\ tokens = Capacity
    /\ timePassed = 0
    /\ lpc = [c \in Callers |-> "idle"]
    /\ waited = [c \in Callers |-> FALSE]
    /\ grantAges = <<>>
    \* the other components are not running
    /\ dpc = "off" /\ dEntry = "none" /\ dTargets = <<>> /\ amountToSend = 0
    /\ genBal = 0 /\ funded = "no" /\ seenBal = [st |-> "unread", v |-> 0]
    /\ xfer = <<>> /\ attempts = <<>> /\ results = <<>> /\ returned = FALSE
    /\ sweepStarted = FALSE /\ sweepSent = 0 /\ monitored = <<>>
    /\ rpc = "off" /\ rActive = "ACT" /\ rHistory = <<>>
    /\ bal = <<>>
    /\ minSolTarget = 0 /\ maxTargets = 0 /\ rTargets = <<>> /\ rLastMin = 0
    /\ rPasses = <<>> /\ elapsed = 0 /\ rCalls = <<>>
    /\ generatedKeypairs = <<>> /\ activeAddresses = <<>>
    /\ similarAddresses = <<>> /\ tasks = EmptyBag
    /\ autoMode = FALSE /\ starts = 0 /\ loading = EmptyBag /\ generatorLoops = 0
    /\ exploreLoops = EmptyBag /\ terminated = <<>> /\ sockets = 0
    /\ reconnects = 0 /\ handlers = EmptyBag /\ unhandled = FALSE
    /\ addressesToExplore = <<>> /\ exploreArray = <<>> /\ epc = "off"
    /\ lastReturn = <<>> /\ queueAdds = <<>>
    /\ walletBal = 0 /\ mpc = "off" /\ submitted = <<>>
    /\ targetAddresses = <<>>
    /\ dataFiles = FilesOff /\ tempFiles = NoTemps
    /\ writes = EmptyBag /\ writeCalls = 0

\* one iteration of the while (true) loop of waitForToken run by task c:
\* refillTokens(), then if (this.tokens > 0) { this.tokens--; return; }, else the
\* task sleeps in setTimeout; w tells whether this call had slept before
Attempt(c, w) ==
    LET refilled == RefillTokens(tokens, timePassed)
    IN  /\ timePassed' = 0
        /\ IF refilled > 0
           THEN /\ tokens' = refilled - QuantaPerToken
                /\ lpc' = [lpc EXCEPT ![c] = "holding"]
                /\ waited' = [waited EXCEPT ![c] = w]
                /\ grantAges' = Append(grantAges, 0)
           ELSE /\ tokens' = refilled
                /\ lpc' = [lpc EXCEPT ![c] = "sleeping"]
                /\ waited' = [waited EXCEPT ![c] = TRUE]
                /\ UNCHANGED grantAges

\* task c calls rateLimiter.waitForToken()
Acquire(c) ==
    /\ lpc[c] = "idle"
    /\ Attempt(c, FALSE)
    /\ UNCHANGED <<dvars, rvars, cvars, svars, ivars, mvars, pvars, fvars>>

\* the timer of task c fires and its loop runs again
Poll(c) ==
    /\ lpc[c] = "due"
    /\ Attempt(c, waited[c])
    /\ UNCHANGED <<dvars, rvars, cvars, svars, ivars, mvars, pvars, fvars>>

\* waitForToken has returned to task c, which goes on and, like the loops and the
\* handlers that call checkAndAddAddress again and again, may call it anew
CallReturned(c) ==
    /\ lpc[c] = "holding"
    /\ lpc' = [lpc EXCEPT ![c] = "idle"]
    /\ UNCHANGED <<tokens, timePassed, waited, grantAges>>
    /\ UNCHANGED <<dvars, rvars, cvars, svars, ivars, mvars, pvars, fvars>>

\* the clock advances by TickMs
Tick ==
    LET Recent(a) == a < WindowTicks
    IN  /\ timePassed' = Min2(timePassed + 1, TimePassedCap)
        /\ lpc' = [c \in Callers |-> IF lpc[c] = "sleeping" /\ TickMs >= PollIntervalMs
                                   THEN "due" ELSE lpc[c]]
        /\ grantAges' = SelectSeq([i \in 1..Len(grantAges) |-> grantAges[i] + 1], Recent)
        /\ UNCHANGED <<tokens, waited>>
        /\ UNCHANGED <<dvars, rvars, cvars, svars, ivars, mvars, pvars, fvars>>

NextLimiter ==
    \/ \E c \in Callers : Acquire(c)
    \/ \E c \in Callers : Poll(c)
    \/ \E c \in Callers : CallReturned(c)
    \/ Tick

\* --------------------------------------------- properties of the rate limiter
\* C11: for any timing of acquire() calls made by any number of tasks, the rate
\* limiter constructed with (maxRequests, perSeconds) grants at most maxRequests
\* acquisitions within any rolling window of perSeconds seconds.
C11_AtMostMaxRequestsPerWindow == Len(grantAges) <= maxRequests

Waiting(c) == lpc[c] \in {"sleeping", "due"}

\* C13: every waitForToken call eventually returns holding a token, for any number
\* of tasks waiting concurrently and given that time advances; the call has no
\* other way to end (no error, no dropped request).
C13_EveryCallReturns ==
    \A c \in Callers : [](Waiting(c) => <>(lpc[c] = "holding"))

\* C29: in every reachable state of the rate limiter, under any interleaving of
\* concurrent waitForToken calls and any elapsed times between them, the token
\* count satisfies 0 <= tokens <= maxRequests.
C29_TokensWithinBounds == 0 <= tokens /\ tokens <= Capacity

\* =============================================================== INGESTION

\* EXCLUDED_ADDRESSES of generation.js: the vote program only
VoteProgram == <<"V","o","t","e","1","1","1","1","1","1","1","1","1","1","1">>
EXCLUDED_ADDRESSES_GENERATION == {VoteProgram}

\* the addresses the feeds come across and checkAndAddAddress is called with
SeenAddresses == ActiveCandidates \cup {VoteProgram}

\* what a call of checkAndAddAddress returned and what it went through: the flag it
\* read on entry, the outcome of its balance fetch ("none" when it made none), the
\* balance fetched, the pool positions its correlation run passed, and its value
Ret(addr, enabled, fetched, balance, scanned, result) ==
    [addr |-> addr, enabled |-> enabled, fetched |-> fetched, balance |-> balance,
     scanned |-> scanned, result |-> result]

\* if (balance >= MINIMUM_BALANCE)
QualifiesAbove(balance) == balance > MINIMUM_BALANCE
Qualifies(balance) == balance >= MINIMUM_BALANCE

\* activeAddresses.has(key)
ActiveHas(m, key) == \E i \in 1..Len(m) : m[i].publicKey = key

\* a call by kind returns ret: the feeds go on with
\* if (isActive) addressesToExplore.add(key), the for loop of exploreAddresses
\* drops the value; add on a Set inserts only an address that is not in it
ReturnTo(kind, addr, ret) ==
    /\ lastReturn' = <<ret>>
    /\ IF kind \in {"event", "poll"} /\ ret.result /\ addr \notin Range(addressesToExplore)
       THEN /\ addressesToExplore' = Append(addressesToExplore, addr)
            /\ queueAdds' = [queueAdds EXCEPT ![addr] = @ + 1]
       ELSE UNCHANGED <<addressesToExplore, queueAdds>>

\* checkAndAddAddress(address) up to its first await:
\* if (!autoMode || EXCLUDED_ADDRESSES.includes(address)) return false;
\* await rateLimiter.waitForToken()
CallCheck(kind, address) ==
    IF ~autoMode \/ address \in EXCLUDED_ADDRESSES_GENERATION
    THEN /\ ReturnTo(kind, address, Ret(address, autoMode, "none", 0, 0, FALSE))
         /\ UNCHANGED tasks
    ELSE /\ BagCardinality(tasks) < MaxTasks
         /\ tasks' = tasks (+) One(Task(kind, address, 0, 0, "token", 0))
         /\ UNCHANGED <<lastReturn, addressesToExplore, queueAdds>>

CheckCallers == {"direct", "event", "poll", "recheck"}
InFlight(kind) == \E t \in BagToSet(tasks) : t.kind = kind

InitIngest ==
    /\ autoMode = TRUE
    /\ generatedKeypairs = <<>>
    /\ activeAddresses = <<>>
    /\ similarAddresses = <<>>
    /\ tasks = EmptyBag
    /\ addressesToExplore = <<>>
    /\ exploreArray = <<>>
    /\ epc = "top"
    /\ lastReturn = <<>>
    /\ queueAdds = [a \in SeenAddresses |-> 0]
    \* the other components are not running
    /\ starts = 1 /\ loading = EmptyBag /\ generatorLoops = 0
    /\ exploreLoops = EmptyBag /\ terminated = <<>> /\ sockets = 0
    /\ reconnects = 0 /\ handlers = EmptyBag /\ unhandled = FALSE
    /\ dpc = "off" /\ dEntry = "none" /\ dTargets = <<>> /\ amountToSend = 0
    /\ genBal = 0 /\ funded = "no" /\ seenBal = [st |-> "unread", v |-> 0]
    /\ xfer = <<>> /\ attempts = <<>> /\ results = <<>> /\ returned = FALSE
    /\ sweepStarted = FALSE /\ sweepSent = 0 /\ monitored = <<>>
    /\ rpc = "off" /\ rActive = "ACT" /\ rHistory = <<>>
    /\ bal = <<>>
    /\ minSolTarget = 0 /\ maxTargets = 0 /\ rTargets = <<>> /\ rLastMin = 0
    /\ rPasses = <<>> /\ elapsed = 0 /\ rCalls = <<>>
    /\ tokens = 0 /\ timePassed = 0 /\ lpc = <<>> /\ waited = <<>>
    /\ grantAges = <<>>
    /\ walletBal = 0 /\ mpc = "off" /\ submitted = <<>>
    /\ targetAddresses = <<>>
    /\ dataFiles = FilesOff /\ tempFiles = NoTemps
    /\ writes = EmptyBag /\ writeCalls = 0

IngestFrame ==
    /\ UNCHANGED <<starts, loading, generatorLoops, exploreLoops, terminated, sockets,
                   reconnects, handlers, unhandled>>
    /\ UNCHANGED <<dvars, rvars, lvars, mvars, pvars, fvars>>

\* checkAndAddAddress is called with address (by any caller)
DirectCall(address) ==
    /\ CallCheck("direct", address)
    /\ UNCHANGED <<autoMode, generatedKeypairs, activeAddresses, similarAddresses,
                   exploreArray, epc>>
    /\ IngestFrame

\* rateLimiter.waitForToken() returns: connection.getBalance is called
TokenGranted(t) ==
    /\ BagIn(t, tasks)
    /\ t.phase = "token"
    /\ tasks' = (tasks (-) One(t)) (+) One([t EXCEPT !.phase = "balance"])
    /\ UNCHANGED <<autoMode, generatedKeypairs, activeAddresses, similarAddresses>>
    /\ UNCHANGED ivars
    /\ IngestFrame

\* connection.getBalance returns or throws: a balance of at least MINIMUM_BALANCE is
\* recorded in activeAddresses and appendToFile is awaited (the correlation run
\* follows); a smaller one is logged, an exception is caught and logged, and both
\* return false
BalanceFetched(t, ok) ==
    /\ BagIn(t, tasks)
    /\ t.phase = "balance"
    /\ IF ok /\ Qualifies(BalanceOf(t.addr))
       THEN /\ activeAddresses' = MapSet(activeAddresses, t.addr, BalanceOf(t.addr))
            /\ tasks' = (tasks (-) One(t))
                           (+) One([t EXCEPT !.balance = BalanceOf(t.addr), !.phase = "scan"])
            /\ UNCHANGED ivars
       ELSE /\ tasks' = tasks (-) One(t)
            /\ ReturnTo(t.kind, t.addr,
                        Ret(t.addr, TRUE, IF ok THEN "ok" ELSE "failed",
                            IF ok THEN BalanceOf(t.addr) ELSE 0, 0, FALSE))
            /\ UNCHANGED <<activeAddresses, exploreArray, epc>>
    /\ UNCHANGED <<autoMode, generatedKeypairs, similarAddresses>>
    /\ IngestFrame

\* saveSimilarAddresses has completed: findSimilarKeysForActiveAddresses returns
\* and checkAndAddAddress returns true
CheckReturns(t) ==
    /\ BagIn(t, tasks)
    /\ t.kind \in CheckCallers
    /\ t.phase = "save"
    /\ tasks' = tasks (-) One(t)
    /\ ReturnTo(t.kind, t.addr, Ret(t.addr, TRUE, "ok", t.balance, t.idx, TRUE))
    /\ UNCHANGED <<autoMode, generatedKeypairs, activeAddresses, similarAddresses,
                   exploreArray, epc>>
    /\ IngestFrame

\* a 'message' handler of the event feed comes to the account key:
\* if (!activeAddresses.has(key) && !EXCLUDED_ADDRESSES.includes(key))
\*     isActive = await checkAndAddAddress(key)
EventSight(key) ==
    /\ ~ActiveHas(activeAddresses, key)
    /\ key \notin EXCLUDED_ADDRESSES_GENERATION
    /\ CallCheck("event", key)
    /\ UNCHANGED <<autoMode, generatedKeypairs, activeAddresses, similarAddresses,
                   exploreArray, epc>>
    /\ IngestFrame

\* exploreAddresses at while (autoMode): the queue is copied to
\* addressesToExploreArray and cleared
ExploreCycle ==
    /\ epc = "top"
    /\ IF autoMode
       THEN /\ exploreArray' = addressesToExplore
            /\ addressesToExplore' = <<>>
            /\ epc' = "recheck"
       ELSE /\ epc' = "returned"
            /\ UNCHANGED <<exploreArray, addressesToExplore>>
    /\ UNCHANGED <<lastReturn, queueAdds>>
    /\ UNCHANGED <<autoMode, generatedKeypairs, activeAddresses, similarAddresses, tasks>>
    /\ IngestFrame

\* the for loop over the drained queue comes to its next address:
\* if (!autoMode) return; await checkAndAddAddress(address)
ExploreRecheck ==
    /\ epc = "recheck"
    /\ ~InFlight("recheck")
    /\ exploreArray # <<>>
    /\ IF autoMode
       THEN /\ CallCheck("recheck", Head(exploreArray))
            /\ exploreArray' = Tail(exploreArray)
            /\ UNCHANGED epc
       ELSE /\ epc' = "returned"
            /\ UNCHANGED <<exploreArray, tasks, lastReturn, addressesToExplore, queueAdds>>
    /\ UNCHANGED <<autoMode, generatedKeypairs, activeAddresses, similarAddresses>>
    /\ IngestFrame

\* the for loop has ended: if (addressesToExplore.size === 0) { if (!autoMode)
\* return; sleep 5 s; await fetchRecentTransactions() }, else
\* saveActiveAddresses and the next cycle
ExploreAfterRecheck ==
    /\ epc = "recheck"
    /\ ~InFlight("recheck")
    /\ exploreArray = <<>>
    /\ epc' = IF addressesToExplore # <<>> THEN "top"
              ELSE IF autoMode THEN "poll" ELSE "returned"
    /\ UNCHANGED <<addressesToExplore, exploreArray, lastReturn, queueAdds>>
    /\ UNCHANGED <<autoMode, generatedKeypairs, activeAddresses, similarAddresses, tasks>>
    /\ IngestFrame

\* fetchRecentTransactions comes to an address of the fetched block:
\* if (!activeAddresses.has(address) && !EXCLUDED_ADDRESSES.includes(address))
\*     isActive = await checkAndAddAddress(address)
PollSight(address) ==
    /\ epc = "poll"
    /\ ~InFlight("poll")
    /\ ~ActiveHas(activeAddresses, address)
    /\ address \notin EXCLUDED_ADDRESSES_GENERATION
    /\ CallCheck("poll", address)
    /\ UNCHANGED <<autoMode, generatedKeypairs, activeAddresses, similarAddresses,
                   exploreArray, epc>>
    /\ IngestFrame

\* fetchRecentTransactions returns; saveActiveAddresses and the next cycle
PollEnd ==
    /\ epc = "poll"
    /\ ~InFlight("poll")
    /\ epc' = "top"
    /\ UNCHANGED <<addressesToExplore, exploreArray, lastReturn, queueAdds>>
    /\ UNCHANGED <<autoMode, generatedKeypairs, activeAddresses, similarAddresses, tasks>>
    /\ IngestFrame

\* ---------------------------------------------------- properties of ingestion
RecordIn(sim, a, g) ==
    \E i \in 1..Len(sim) : sim[i].activeAddress = a /\ sim[i].generatedPublicKey = g

\* a step in which a call of checkAndAddAddress returns
ReturnedNow ==
    lastReturn' # lastReturn \/ BagCardinality(tasks') < BagCardinality(tasks)

\* the value returned is true exactly for an enabled call with an address off the
\* exclusion list whose balance fetch succeeded with at least the threshold; the
\* address is then in the active set with the balance fetched and every pool
\* keypair its correlation run went over is recorded exactly when it matches
ReturnAsClaimed ==
    ReturnedNow =>
        LET r == lastReturn'[1]
        IN  /\ r.result <=> /\ r.enabled
                            /\ r.addr \notin EXCLUDED_ADDRESSES_GENERATION
                            /\ r.fetched = "ok"
                            /\ r.balance >= MINIMUM_BALANCE
            /\ r.result =>
                  /\ \E i \in 1..Len(activeAddresses') :
                        activeAddresses'[i] = [publicKey |-> r.addr, balance |-> r.balance]
                  /\ r.scanned <= Len(generatedKeypairs')
                  /\ \A j \in 1..r.scanned :
                        SamePrefix4(r.addr, generatedKeypairs'[j])
                            <=> RecordIn(similarAddresses', r.addr, generatedKeypairs'[j])

\* C21: checkAndAddAddress(address) returns true exactly when scanning is enabled
\* at the call, the address is not on the static exclusion list, the balance fetch
\* succeeds and the balance is >= the activity threshold; the address is then in
\* the active set with that balance and its correlation run over the pool has
\* ended when the call returns. In every other case, a failed balance fetch
\* included, it returns false (no path of the call throws).
C21_CheckReturnsWhetherQualified == [][ReturnAsClaimed /\ RunEndsAtPoolEnd]_vars

\* a call for A2, which holds exactly the threshold, has returned true after its
\* run went over a pool of two keypairs or more and recorded the match with G2
C21_Witness ==
    /\ lastReturn # <<>>
    /\ lastReturn[1].addr = A2
    /\ lastReturn[1].result
    /\ lastReturn[1].balance = MINIMUM_BALANCE
    /\ lastReturn[1].scanned >= 2
    /\ HasRecord(A2, G2)
    /\ ActiveHas(activeAddresses, A2)

\* C27: an address is added to the exploration queue at most once over a scanning
\* session: once it has qualified and is in the active set, later sightings by
\* the poll feed or by any concurrently running event-feed handler do not enqueue
\* it (or balance-check it through a feed) again.
C27_EnqueuedAtMostOnce == \A a \in DOMAIN queueAdds : queueAdds[a] <= 1

\* ================================================================ SCANNING

\* the public keys Keypair.generate() returns while scanning and the records of
\* generated_keypairs.json are of: a call returns a key drawn at random, one the
\* pool does not hold or (what the has() test is there for) one it holds
ScannedKeys == {G1, G2}

\* the content of generated_keypairs.json read by loadExistingData: any list of
\* keypair records (appendToFile is a read-modify-write and may store one twice)
FileData == SeqsUpTo(ScannedKeys, MaxFileRecords)

\* generatedKeypairs.has(publicKey)
HasNever(pool, publicKey) == FALSE
Has(pool, publicKey) == publicKey \in Range(pool)

\* if (!generatedKeypairs.has(publicKey)) generatedKeypairs.set(publicKey, keypairData)
InsertKeypair(pool, publicKey) ==
    IF ~Has(pool, publicKey) THEN Append(pool, publicKey) ELSE pool

\* new Map(generatedKeypairsData.map(obj => [obj.publicKey, obj])): a key that
\* occurs again keeps its first position
RECURSIVE NewMap(_)
NewMap(data) ==
    IF data = <<>> THEN <<>>
    ELSE LET m == NewMap(SubSeq(data, 1, Len(data) - 1))
             k == data[Len(data)]
         IN  IF k \in Range(m) THEN m ELSE Append(m, k)

\* the test of while (autoMode) in generateAndSaveKeypair and exploreAddresses
KeepsRunningAlways(flag) == TRUE
KeepsRunning(flag) == flag

InitScan ==
    /\ autoMode = FALSE
    /\ starts = 0
    /\ loading = EmptyBag
    /\ generatorLoops = 0
    /\ exploreLoops = EmptyBag
    /\ terminated = [generator |-> 0, explore |-> 0]
    /\ sockets = 0
    /\ reconnects = 0
    /\ handlers = EmptyBag
    /\ unhandled = FALSE
    /\ generatedKeypairs = <<>>
    \* the other components are not running
    /\ activeAddresses = <<>> /\ similarAddresses = <<>> /\ tasks = EmptyBag
    /\ dpc = "off" /\ dEntry = "none" /\ dTargets = <<>> /\ amountToSend = 0
    /\ genBal = 0 /\ funded = "no" /\ seenBal = [st |-> "unread", v |-> 0]
    /\ xfer = <<>> /\ attempts = <<>> /\ results = <<>> /\ returned = FALSE
    /\ sweepStarted = FALSE /\ sweepSent = 0 /\ monitored = <<>>
    /\ rpc = "off" /\ rActive = "ACT" /\ rHistory = <<>>
    /\ bal = <<>>
    /\ minSolTarget = 0 /\ maxTargets = 0 /\ rTargets = <<>> /\ rLastMin = 0
    /\ rPasses = <<>> /\ elapsed = 0 /\ rCalls = <<>>
    /\ tokens = 0 /\ timePassed = 0 /\ lpc = <<>> /\ waited = <<>>
    /\ grantAges = <<>>
    /\ addressesToExplore = <<>> /\ exploreArray = <<>> /\ epc = "off"
    /\ lastReturn = <<>> /\ queueAdds = <<>>
    /\ walletBal = 0 /\ mpc = "off" /\ submitted = <<>>
    /\ targetAddresses = <<>>
    /\ dataFiles = FilesOff /\ tempFiles = NoTemps
    /\ writes = EmptyBag /\ writeCalls = 0

\* what no scanning action touches
ScanFrame ==
    /\ UNCHANGED <<activeAddresses, similarAddresses, tasks>>
    /\ UNCHANGED <<dvars, rvars, lvars, ivars, mvars, pvars, fvars>>

\* a call of loadExistingData in flight, and sendTransactionMenu after its load:
\* at the prompt 'Select an address:' (prompt), in the two balance fetches of
\* viewTargets (balances), or past clearTargetAddresses in the rest of viewTargets
\* (targets)
Load(by, phase) == [by |-> by, phase |-> phase]

\* the main menu is shown again only when sendTransactionMenu has returned
MenuBusy == \E l \in BagToSet(loading) : l.by = "menu"

\* the content of active_addresses.json, of similar_addresses.json and of
\* target_addresses.json read by loadExistingData: the [] of a fresh data
\* directory, or one active address, its match with one keypair, one target
ActiveFileData == {<<>>, <<[publicKey |-> A1, balance |-> BalanceOf(A1)]>>}
SimilarFileData == {<<>>, <<SimilarAddress(A1, G1, BalanceOf(A1))>>}
TargetFileData == {<<>>, <<[publicKey |-> A2, balance |-> BalanceOf(A2)]>>}

\* new Map(data.map(obj => [obj.publicKey, {balance, lastActivity}])): a key that
\* occurs again keeps its first position and takes the later value
RECURSIVE LoadMap(_)
LoadMap(data) ==
    IF data = <<>> THEN <<>>
    ELSE LET k == data[Len(data)]
         IN  MapSet(LoadMap(SubSeq(data, 1, Len(data) - 1)), k.publicKey, k.balance)

\* the addresses the feeds and the queue bring to checkAndAddAddress while
\* scanning: A1, which holds the threshold and more and matches G1, and A3, which
\* holds less. The account keys of a fetched block or of a logsNotification, in
\* order: none, A3 alone, or A1 and then A3
KeyLists == {<<>>, <<A3>>, <<A1, A3>>}

\* Array.from(addressesToExplore) at the top of a cycle: the queue holds addresses
\* for which checkAndAddAddress has returned true, each once; the handlers of the
\* event feed add to it at any time, so what a cycle finds there is an input
QueueArrays == {<<>>, <<A1>>}

\* the first of keys that passes
\* if (!activeAddresses.has(key) && !EXCLUDED_ADDRESSES.includes(key)), 0 if none
NextUnseen(keys, active) ==
    LET unseen == {i \in 1..Len(keys) : /\ ~ActiveHas(active, keys[i])
                                        /\ keys[i] \notin EXCLUDED_ADDRESSES_GENERATION}
    IN  IF unseen = {} THEN 0 ELSE CHOOSE i \in unseen : \A j \in unseen : i <= j

\* checkAndAddAddress(keys[i]) called by kind with the flag set, up to its
\* await rateLimiter.waitForToken(); the call keeps what the caller's loop has
\* after keys[i]
Call(kind, keys, i) ==
    [Task(kind, keys[i], 0, 0, "token", 0) EXCEPT !.rest = SubSeq(keys, i + 1, Len(keys))]

\* the correlation runs in flight when loadExistingData replaces the pool: a run
\* that has taken generatedKeypairs.entries() goes on over the Map it took it from
Frozen(b, pool) ==
    LET moved(t) == IF t.phase = "scan" /\ t.idx > 0 /\ t.pool.live
                    THEN [t EXCEPT !.pool = OldPool(pool)]
                    ELSE t
        after == {moved(t) : t \in BagToSet(b)}
        before(v) == {t \in BagToSet(b) : moved(t) = v}
        RECURSIVE total(_)
        total(ts) == IF ts = {} THEN 0
                     ELSE LET t == CHOOSE x \in ts : TRUE
                          IN  CopiesIn(t, b) + total(ts \ {t})
    IN  [v \in after |-> total(before(v))]

\* the menu offers 'Start Generation' while its flag is off: startGeneration ->
\* startAutoMode sets autoMode = true and waits in await loadExistingData(); the
\* main menu is shown again at once
StartGeneration ==
    /\ ~autoMode
    /\ ~MenuBusy
    /\ starts < MaxStarts
    /\ autoMode' = TRUE
    /\ starts' = starts + 1
    /\ loading' = loading (+) One(Load("start", "generated"))
    /\ UNCHANGED <<generatorLoops, exploreLoops, terminated, sockets, reconnects,
                   handlers, unhandled, generatedKeypairs>>
    /\ ScanFrame

\* the menu offers 'Stop Generation' while its flag is on: stopGeneration clears
\* autoMode and does nothing else
StopGeneration ==
    /\ autoMode
    /\ ~MenuBusy
    /\ autoMode' = FALSE
    /\ UNCHANGED <<starts, loading, generatorLoops, exploreLoops, terminated, sockets,
                   reconnects, handlers, unhandled, generatedKeypairs>>
    /\ ScanFrame

\* 'Send Transaction' is chosen: sendTransactionMenu awaits loadExistingData(), and
\* the main menu waits for sendTransactionMenu
SendTransactionMenu ==
    /\ ~MenuBusy
    /\ loading' = loading (+) One(Load("menu", "generated"))
    /\ UNCHANGED <<autoMode, starts, generatorLoops, exploreLoops, terminated, sockets,
                   reconnects, handlers, unhandled, generatedKeypairs>>
    /\ ScanFrame

\* loadExistingData: generated_keypairs.json has been read and the pool is replaced
\* by a Map of its content data; the read of active_addresses.json is awaited
LoadGenerated(l, data) ==
    /\ BagIn(l, loading)
    /\ l.phase = "generated"
    /\ generatedKeypairs' = NewMap(data)
    /\ tasks' = Frozen(tasks, generatedKeypairs)
    /\ loading' = (loading (-) One(l)) (+) One(Load(l.by, "active"))
    /\ UNCHANGED <<autoMode, starts, generatorLoops, exploreLoops, terminated, sockets,
                   reconnects, handlers, unhandled>>
    /\ UNCHANGED <<activeAddresses, similarAddresses>>
    /\ UNCHANGED <<dvars, rvars, lvars, ivars, mvars, pvars, fvars>>

\* loadExistingData: active_addresses.json has been read and the active set is
\* replaced; the read of similar_addresses.json is awaited
LoadActive(l, data) ==
    /\ BagIn(l, loading)
    /\ l.phase = "active"
    /\ activeAddresses' = LoadMap(data)
    /\ loading' = (loading (-) One(l)) (+) One(Load(l.by, "similar"))
    /\ UNCHANGED <<autoMode, starts, generatorLoops, exploreLoops, terminated, sockets,
                   reconnects, handlers, unhandled, generatedKeypairs>>
    /\ UNCHANGED <<similarAddresses, tasks>>
    /\ UNCHANGED <<dvars, rvars, lvars, ivars, mvars, pvars, fvars>>

\* loadExistingData: similar_addresses.json has been read and the match set is
\* replaced by a Set of its records; the read of target_addresses.json is awaited
LoadSimilar(l, data) ==
    /\ BagIn(l, loading)
    /\ l.phase = "similar"
    /\ similarAddresses' = data
    /\ loading' = (loading (-) One(l)) (+) One(Load(l.by, "target"))
    /\ UNCHANGED <<autoMode, starts, generatorLoops, exploreLoops, terminated, sockets,
                   reconnects, handlers, unhandled, generatedKeypairs>>
    /\ UNCHANGED <<activeAddresses, tasks>>
    /\ UNCHANGED <<dvars, rvars, lvars, ivars, mvars, pvars, fvars>>

\* an exploreAddresses loop at while (autoMode) with the flag set: the queue is
\* copied to array and cleared; the for loop calls checkAndAddAddress for its
\* first address, or, the queue being empty, the 5 s sleep starts
ExploreCycleStarts(array) ==
    IF array # <<>> THEN One(Call("recheck", array, 1)) ELSE EmptyBag
ExploreCycleAwaits(array) == IF array # <<>> THEN "recheck" ELSE "sleep"

\* loadExistingData returns: target_addresses.json has been read and targetAddresses
\* replaced by a Map of its content data (ok), or the read it was awaiting has
\* thrown, which the catch logs (~ok). A call made by startAutoMode goes on:
\* generateAndSaveKeypair() runs to its first await (its first iteration generates
\* publicKey), exploreAddresses() runs to its first await (the re-check of the
\* queue it finds, or the 5 s sleep), and setupWebSocket() creates a socket; a
\* loop called with the flag already cleared returns at once. A call made by
\* sendTransactionMenu goes on to if (similarAddresses.size === 0) return, else to
\* the prompt 'Select an address:'
LoadExistingDataDone(l, ok, data, publicKey, array) ==
    /\ BagIn(l, loading)
    /\ ok => l.phase = "target"
    /\ targetAddresses' = IF ok THEN LoadMap(data) ELSE targetAddresses
    /\ IF l.by = "start"
       THEN /\ loading' = loading (-) One(l)
            /\ IF KeepsRunning(autoMode)
               THEN /\ generatedKeypairs' = InsertKeypair(generatedKeypairs, publicKey)
                    /\ generatorLoops' = generatorLoops + 1
                    /\ exploreLoops' = exploreLoops (+) One(ExploreCycleAwaits(array))
                    /\ tasks' = tasks (+) ExploreCycleStarts(array)
               ELSE UNCHANGED <<generatedKeypairs, generatorLoops, exploreLoops, tasks>>
            /\ sockets' = sockets + 1
       ELSE /\ loading' = IF similarAddresses = <<>>
                          THEN loading (-) One(l)
                          ELSE (loading (-) One(l)) (+) One(Load("menu", "prompt"))
            /\ UNCHANGED <<generatedKeypairs, generatorLoops, exploreLoops, sockets,
                           tasks>>
    /\ UNCHANGED <<autoMode, starts, terminated, reconnects, handlers, unhandled>>
    /\ UNCHANGED <<activeAddresses, similarAddresses>>
    /\ UNCHANGED <<dvars, rvars, lvars, ivars, mvars, fvars>>

\* the operator selects a pair at the prompt: when it is no longer in
\* similarAddresses, or its secret key does not decode, sendTransactionMenu
\* returns (~viewed); else viewTargets awaits the balances of the two wallets
MenuSelect(viewed) ==
    /\ BagIn(Load("menu", "prompt"), loading)
    /\ viewed => similarAddresses # <<>>
    /\ loading' = IF viewed
                  THEN (loading (-) One(Load("menu", "prompt")))
                          (+) One(Load("menu", "balances"))
                  ELSE loading (-) One(Load("menu", "prompt"))
    /\ UNCHANGED <<autoMode, starts, generatorLoops, exploreLoops, terminated, sockets,
                   reconnects, handlers, unhandled, generatedKeypairs>>
    /\ ScanFrame

\* viewTargets: the balances are there and clearTargetAddresses is called:
\* targetAddresses.clear(), and its save and the rest of viewTargets are awaited
ViewTargetsClear ==
    /\ BagIn(Load("menu", "balances"), loading)
    /\ targetAddresses' = <<>>
    /\ loading' = (loading (-) One(Load("menu", "balances")))
                     (+) One(Load("menu", "targets"))
    /\ UNCHANGED <<autoMode, starts, generatorLoops, exploreLoops, terminated, sockets,
                   reconnects, handlers, unhandled, generatedKeypairs>>
    /\ UNCHANGED <<activeAddresses, similarAddresses, tasks>>
    /\ UNCHANGED <<dvars, rvars, lvars, ivars, mvars, fvars>>

\* viewTargets returns and with it sendTransactionMenu: the main menu is shown
SendTransactionMenuDone ==
    /\ BagIn(Load("menu", "targets"), loading)
    /\ loading' = loading (-) One(Load("menu", "targets"))
    /\ UNCHANGED <<autoMode, starts, generatorLoops, exploreLoops, terminated, sockets,
                   reconnects, handlers, unhandled, generatedKeypairs>>
    /\ ScanFrame

\* a generateAndSaveKeypair loop resumes after the awaits of its body (appendToFile,
\* saveGeneratedKeypairs, the 10 ms sleep): while (autoMode) is tested, and either
\* the next iteration generates publicKey or the loop returns
GenerateAndSaveKeypair(publicKey) ==
    /\ generatorLoops > 0
    /\ IF KeepsRunning(autoMode)
       THEN /\ generatedKeypairs' = InsertKeypair(generatedKeypairs, publicKey)
            /\ UNCHANGED <<generatorLoops, terminated>>
       ELSE /\ generatorLoops' = generatorLoops - 1
            /\ terminated' = [terminated EXCEPT !.generator = 1]
            /\ UNCHANGED generatedKeypairs
    /\ UNCHANGED <<autoMode, starts, loading, exploreLoops, sockets, reconnects,
                   handlers, unhandled>>
    /\ ScanFrame

\* an exploreAddresses loop leaves the await it is in for the await named next, or
\* returns when next is "return"
ExploreMoves(from, next) ==
    IF next = "return"
    THEN /\ exploreLoops' = exploreLoops (-) One(from)
         /\ terminated' = [terminated EXCEPT !.explore = 1]
    ELSE /\ exploreLoops' = (exploreLoops (-) One(from)) (+) One(next)
         /\ UNCHANGED terminated

ExploreFrame ==
    /\ UNCHANGED <<autoMode, starts, loading, generatorLoops, sockets, reconnects,
                   handlers, unhandled, generatedKeypairs>>
    /\ ScanFrame

\* what the return of a call of checkAndAddAddress to its caller leaves alone
ReturnFrame ==
    /\ UNCHANGED <<autoMode, starts, loading, generatorLoops, sockets, reconnects,
                   unhandled>>
    /\ UNCHANGED <<generatedKeypairs, activeAddresses, similarAddresses>>
    /\ UNCHANGED <<dvars, rvars, lvars, ivars, mvars, pvars, fvars>>

\* connection.getBalance of the call t returns a balance of MINIMUM_BALANCE or
\* more: activeAddresses.set(address, ...), and appendToFile on
\* active_addresses.json is awaited; findSimilarKeysForActiveAddresses follows it
GetBalanceDone(t) ==
    /\ Qualifies(BalanceOf(t.addr))
    /\ BalanceFetched(t, TRUE)

\* the call t of checkAndAddAddress returns to its caller: false when getBalance
\* throws (~ok) or returns less than MINIMUM_BALANCE, true when the
\* saveSimilarAddresses that ends its correlation run has returned
Returns(t, ok) ==
    \/ t.phase = "balance" /\ ~(ok /\ Qualifies(BalanceOf(t.addr)))
    \/ t.phase = "save"

\* await checkAndAddAddress(address) of the queue re-check returns (its value is
\* dropped): the for loop tests if (!autoMode) return before a further address and
\* calls checkAndAddAddress for it; after the last one, an empty queue leads to
\* if (!autoMode) return and the 5 s sleep, a refilled one to the save
ExploreRecheckDone(t, ok, empty) ==
    /\ BagIn(t, tasks)
    /\ t.kind = "recheck"
    /\ Returns(t, ok)
    /\ BagIn("recheck", exploreLoops)
    /\ IF t.rest # <<>> /\ autoMode
       THEN /\ tasks' = (tasks (-) One(t)) (+) One(Call("recheck", t.rest, 1))
            /\ UNCHANGED <<exploreLoops, terminated>>
       ELSE /\ tasks' = tasks (-) One(t)
            /\ ExploreMoves("recheck",
                    IF t.rest # <<>> THEN "return"
                    ELSE IF ~empty THEN "save"
                    ELSE IF ~autoMode THEN "return" ELSE "sleep")
    /\ UNCHANGED handlers
    /\ ReturnFrame

\* the 5 s sleep ends and fetchRecentTransactions is called: if (!autoMode) return,
\* else waitForToken and getLatestBlockhash
ExploreSleepDone ==
    /\ BagIn("sleep", exploreLoops)
    /\ ExploreMoves("sleep", IF ~autoMode THEN "save" ELSE "hash")
    /\ ExploreFrame

\* getLatestBlockhash returns: waitForToken and getBlock follow; a failure is caught
\* by the try of fetchRecentTransactions, which returns
ExploreHashDone(ok) ==
    /\ BagIn("hash", exploreLoops)
    /\ ExploreMoves("hash", IF ok THEN "block" ELSE "save")
    /\ ExploreFrame

\* getBlock returns the block whose transactions name keys: for each transaction
\* if (!autoMode) return, and for the first unseen address checkAndAddAddress,
\* which returns at once when the flag is cleared; a failure is caught and
\* fetchRecentTransactions returns
ExploreBlockDone(ok, keys) ==
    /\ BagIn("block", exploreLoops)
    /\ LET i == NextUnseen(keys, activeAddresses)
       IN  IF ok /\ autoMode /\ i # 0
           THEN /\ tasks' = tasks (+) One(Call("poll", keys, i))
                /\ ExploreMoves("block", "keys")
           ELSE /\ UNCHANGED tasks
                /\ ExploreMoves("block", "save")
    /\ UNCHANGED handlers
    /\ ReturnFrame

\* await checkAndAddAddress(address) of fetchRecentTransactions returns (on true,
\* addressesToExplore.add(address)): the loops go on to the next unseen address of
\* the block and call checkAndAddAddress for it; with the flag cleared, or after
\* the last address, fetchRecentTransactions returns and the save is awaited
ExploreKeysDone(t, ok) ==
    /\ BagIn(t, tasks)
    /\ t.kind = "poll"
    /\ Returns(t, ok)
    /\ BagIn("keys", exploreLoops)
    /\ LET i == NextUnseen(t.rest, activeAddresses)
       IN  IF autoMode /\ i # 0
           THEN /\ tasks' = (tasks (-) One(t)) (+) One(Call("poll", t.rest, i))
                /\ UNCHANGED <<exploreLoops, terminated>>
           ELSE /\ tasks' = tasks (-) One(t)
                /\ ExploreMoves("keys", "save")
    /\ UNCHANGED handlers
    /\ ReturnFrame

\* saveActiveAddresses returns and while (autoMode) is tested: the next cycle
\* starts with the re-check of the queue it finds or with the 5 s sleep
ExploreSaveDone(array) ==
    /\ BagIn("save", exploreLoops)
    /\ IF ~KeepsRunning(autoMode)
       THEN /\ ExploreMoves("save", "return")
            /\ UNCHANGED tasks
       ELSE /\ ExploreMoves("save", ExploreCycleAwaits(array))
            /\ tasks' = tasks (+) ExploreCycleStarts(array)
    /\ UNCHANGED handlers
    /\ ReturnFrame

FeedFrame ==
    /\ UNCHANGED <<autoMode, starts, loading, generatorLoops, exploreLoops, terminated,
                   generatedKeypairs>>
    /\ ScanFrame

\* ws.on('close'): setTimeout(setupWebSocket, 1000), whatever autoMode is
WsClose ==
    /\ sockets > 0
    /\ sockets' = sockets - 1
    /\ reconnects' = reconnects + 1
    /\ UNCHANGED <<handlers, unhandled>>
    /\ FeedFrame

\* the 1 s timer fires: setupWebSocket creates the next socket
SetupWebSocket ==
    /\ reconnects > 0
    /\ reconnects' = reconnects - 1
    /\ sockets' = sockets + 1
    /\ UNCHANGED <<handlers, unhandled>>
    /\ FeedFrame

\* the kinds of data a socket delivers to ws.on('message'): text that is not JSON,
\* a logsNotification whose accountKeys is not an array, and a logsNotification
\* whose accountKeys is an array of keys
MessageKinds == {"malformed", "notArray", "keys"}

\* ws.on('message', async (data) => ...): JSON.parse(data) is outside any try, and
\* in the else branch log is the notification (const log = response.params.result),
\* not the logger, so log(...) throws: both reject the handler's promise; for the
\* first unseen key of accountKeys checkAndAddAddress is called, which returns at
\* once when the flag is cleared and otherwise waits in
\* await rateLimiter.waitForToken()
WsMessage(kind, keys) ==
    /\ sockets > 0
    /\ IF kind = "keys"
       THEN LET i == NextUnseen(keys, activeAddresses)
            IN  /\ autoMode
                /\ i # 0
                /\ BagCardinality(handlers) < MaxHandlers
                /\ handlers' = handlers (+) One("check")
                /\ tasks' = tasks (+) One(Call("event", keys, i))
                /\ UNCHANGED unhandled
       ELSE /\ keys = <<>>
            /\ unhandled' = TRUE
            /\ UNCHANGED <<handlers, tasks>>
    /\ UNCHANGED <<autoMode, starts, loading, generatorLoops, exploreLoops, terminated,
                   sockets, reconnects, generatedKeypairs>>
    /\ UNCHANGED <<activeAddresses, similarAddresses>>
    /\ UNCHANGED <<dvars, rvars, lvars, ivars, mvars, pvars, fvars>>

\* await checkAndAddAddress(key) of a 'message' handler returns (on true,
\* addressesToExplore.add(key)): the for loop over accountKeys goes on to the next
\* unseen key and calls checkAndAddAddress for it, which waits for a token when
\* the flag is set and returns at once when it is cleared; after the last key the
\* handler ends
HandlerCheckDone(t, ok) ==
    /\ BagIn(t, tasks)
    /\ t.kind = "event"
    /\ Returns(t, ok)
    /\ BagIn("check", handlers)
    /\ LET i == NextUnseen(t.rest, activeAddresses)
       IN  IF autoMode /\ i # 0
           THEN /\ tasks' = (tasks (-) One(t)) (+) One(Call("event", t.rest, i))
                /\ UNCHANGED handlers
           ELSE /\ tasks' = tasks (-) One(t)
                /\ handlers' = handlers (-) One("check")
    /\ UNCHANGED <<exploreLoops, terminated>>
    /\ ReturnFrame

\* ------------------------------------------------------ properties of scanning
PoolHasNoDuplicates ==
    \A i, j \in 1..Len(generatedKeypairs) :
        generatedKeypairs[i] = generatedKeypairs[j] => i = j

\* a step of a generator loop keeps every entry of the pool in its place and adds
\* at most public keys the pool did not hold: an insertion of a key that is
\* present changes nothing (a step in which loadExistingData returns replaces
\* the pool by the loaded one)
InsertKeepsPool ==
    loading' = loading =>
        /\ Len(generatedKeypairs') >= Len(generatedKeypairs)
        /\ SubSeq(generatedKeypairs', 1, Len(generatedKeypairs)) = generatedKeypairs
        /\ \A i \in (Len(generatedKeypairs) + 1)..Len(generatedKeypairs') :
              generatedKeypairs'[i] \notin Range(generatedKeypairs)

\* C14: after any sequence and interleaving of keypair insertions (including more
\* than one generator loop running at once), the generated-keypair pool contains
\* no two entries with the same public key, and inserting a public key that is
\* already present leaves the pool unchanged.
C14_PoolKeysUnique == []PoolHasNoDuplicates /\ [][InsertKeepsPool]_vars

\* two generator loops are live and the pool holds every key they can generate,
\* so each further insertion is of a key that is present
C14_Witness ==
    /\ generatorLoops >= 2
    /\ autoMode
    /\ Range(generatedKeypairs) = ScannedKeys

\* C15: startScanning and stopScanning are idempotent, so after any sequence of
\* start/stop calls at most one keypair-generator loop, one poll-feed loop and one
\* event-feed subscription are live.
C15_AtMostOneOfEach ==
    /\ generatorLoops <= 1
    /\ BagCardinality(exploreLoops) <= 1
    /\ sockets + reconnects <= 1

\* the calls made by 'message' handlers that are in connection.getBalance
HandlerFetches(b) ==
    BagCardinality([t \in {x \in BagToSet(b) : x.kind = "event" /\ x.phase = "balance"}
                        |-> CopiesIn(t, b)])

\* C16: the scanning-enabled flag is checked before each RPC call in the ingestion
\* loops: once the flag has been turned off, no ingestion task issues a further
\* balance fetch or block fetch that it had not already issued (stated here for
\* the balance fetch of the event-feed handlers).
C16_NoFetchIssuedAfterStop ==
    [][~autoMode => HandlerFetches(tasks') <= HandlerFetches(tasks)]_vars

NoLoopLive == generatorLoops = 0 /\ exploreLoops = EmptyBag

\* with the flag cleared no generator loop inserts a keypair and no poll-feed
\* loop starts a block fetch
NoNewCycleWhileStopped ==
    (~autoMode /\ ~autoMode') =>
        /\ loading' = loading => generatedKeypairs' = generatedKeypairs
        /\ CopiesIn("hash", exploreLoops') <= CopiesIn("hash", exploreLoops)

\* C17: after stopScanning, if scanning is not re-enabled, the keypair-generator
\* loop and the poll-feed loop each observe the cleared flag and terminate within
\* one loop cycle (eventually, after finitely many steps).
C17_LoopsTerminateAfterStop ==
    /\ [](~autoMode => <>(autoMode \/ NoLoopLive))
    /\ [][NoNewCycleWhileStopped]_vars

\* scanning is stopped and every loop a start had spawned has returned
C17_Witness ==
    /\ ~autoMode
    /\ NoLoopLive
    /\ terminated.generator >= 1
    /\ terminated.explore >= 1

\* a poll-feed loop is in fetchRecentTransactions, at one of its two fetches
InBlockFetch == BagIn("hash", exploreLoops) \/ BagIn("block", exploreLoops)

\* C28: while scanning stays enabled, the poll feed fetches a new block infinitely
\* often: every poll-loop cycle eventually reaches a block fetch, however many
\* addresses the event feed keeps adding to the exploration queue in the meantime.
C28_PollFetchesInfinitelyOften ==
    <>[](autoMode /\ exploreLoops # EmptyBag) => []<>InBlockFetch

\* C18: when the event stream closes, a new connection is opened after a fixed 1 s
\* backoff, again and again, for as long as scanning is enabled and only while it
\* is enabled: once scanning has been disabled, a closure triggers no further
\* reconnect.
C18_ReconnectOnlyWhileEnabled ==
    [][(~autoMode /\ sockets' < sockets) => reconnects' <= reconnects]_vars

\* C19: no failure inside an ingestion task (a failed balance fetch, a failed
\* block fetch, a malformed or failing event-stream notification, a transport
\* error) terminates that task or escapes it: the exception is caught within the
\* loop body or handler.
C19_NoExceptionEscapes == ~unhandled

\* ============================================================= PERSISTENCE

\* the addresses that reach activeAddresses.set: those holding the threshold or more
QualifyingAddresses == {a \in ActiveCandidates : Qualifies(BalanceOf(a))}

\* the public keys addTargetAddress is called with
TargetKeys == {A1, A2}

\* { publicKey: address, balance: balanceInSOL, lastActivity }
ActiveRecord(address) == [publicKey |-> address, balance |-> BalanceOf(address)]

\* a call of appendToFile or of a save in flight
Write(op, file, data, phase, fd) ==
    [op |-> op, file |-> file, data |-> data, phase |-> phase, fd |-> fd]

\* existingData.push(data)
Push(existingData, data) == existingData \o data

\* Array.from(map.entries()).map(([publicKey, value]) => ({publicKey, ...value}))
Entries(map) == map

InFlightOf(op, file) == {w \in BagToSet(writes) : w.op = op /\ w.file = file}

\* the write of fs.writeFile: the bytes of data go to offset 0 of the open file,
\* over what another call has written there since the file was truncated; what
\* is beyond them stays
Overlay(content, data) ==
    IF Size(data) >= content.len THEN Json(data) ELSE Broken(content.len)

\* fs.rename: the file that was at the temporary path is at filePath, and the
\* file that was at filePath has no path any more
Renamed(fd) == CASE fd = "temp" -> "data" [] fd = "data" -> "gone" [] OTHER -> fd

\* the calls in flight after a rename of file f: those that hold f's temporary
\* file open hold the data file, those that held the data file hold a file
\* without a path
Repointed(b, f) ==
    LET moved(w) == IF w.file = f THEN [w EXCEPT !.fd = Renamed(w.fd)] ELSE w
        after == {moved(w) : w \in BagToSet(b)}
        before(v) == {w \in BagToSet(b) : moved(w) = v}
        RECURSIVE total(_)
        total(ws) == IF ws = {} THEN 0
                     ELSE LET w == CHOOSE x \in ws : TRUE
                          IN  CopiesIn(w, b) + total(ws \ {w})
    IN  [v \in after |-> total(before(v))]

InitPersist ==
    /\ activeAddresses = <<>>
    /\ targetAddresses = <<>>
    /\ dataFiles = EmptyFiles
    /\ tempFiles = NoTemps
    /\ writes = EmptyBag /\ writeCalls = 0
    \* the other components are not running
    /\ generatedKeypairs = <<>> /\ similarAddresses = <<>> /\ tasks = EmptyBag
    /\ dpc = "off" /\ dEntry = "none" /\ dTargets = <<>> /\ amountToSend = 0
    /\ genBal = 0 /\ funded = "no" /\ seenBal = [st |-> "unread", v |-> 0]
    /\ xfer = <<>> /\ attempts = <<>> /\ results = <<>> /\ returned = FALSE
    /\ sweepStarted = FALSE /\ sweepSent = 0 /\ monitored = <<>>
    /\ rpc = "off" /\ rActive = "ACT" /\ rHistory = <<>>
    /\ bal = <<>>
    /\ minSolTarget = 0 /\ maxTargets = 0 /\ rTargets = <<>> /\ rLastMin = 0
    /\ rPasses = <<>> /\ elapsed = 0 /\ rCalls = <<>>
    /\ tokens = 0 /\ timePassed = 0 /\ lpc = <<>> /\ waited = <<>>
    /\ grantAges = <<>>
    /\ autoMode = TRUE /\ starts = 1 /\ loading = EmptyBag /\ generatorLoops = 0
    /\ exploreLoops = EmptyBag /\ terminated = <<>> /\ sockets = 0
    /\ reconnects = 0 /\ handlers = EmptyBag /\ unhandled = FALSE
    /\ addressesToExplore = <<>> /\ exploreArray = <<>> /\ epc = "off"
    /\ lastReturn = <<>> /\ queueAdds = <<>>
    /\ walletBal = 0 /\ mpc = "off" /\ submitted = <<>>

PersistFrame ==
    /\ UNCHANGED <<generatedKeypairs, similarAddresses, tasks>>
    /\ UNCHANGED <<dvars, rvars, lvars, svars, ivars, mvars>>

\* checkAndAddAddress of an event-feed handler or of the poll feed, from the return
\* of its balance fetch: activeAddresses.set(address, ...) and the call of
\* appendToFile, which runs on to the first await of readJsonFile
AddActive(address) ==
    /\ writeCalls < MaxWrites
    /\ writeCalls' = writeCalls + 1
    /\ dataFiles["active"].len + BagCardinality(writes) <= MaxFileRecords
    /\ activeAddresses' = MapSet(activeAddresses, address, BalanceOf(address))
    /\ writes' = writes (+) One(Write("append", "active", <<ActiveRecord(address)>>,
                                      "read", "none"))
    /\ UNCHANGED <<targetAddresses, dataFiles, tempFiles>>
    /\ PersistFrame

\* exploreAddresses at the end of a cycle: saveActiveAddresses serialises the map
\* as it stands and awaits fs.writeFile of the temporary file
SaveActive ==
    /\ writeCalls < MaxWrites
    /\ writeCalls' = writeCalls + 1
    /\ InFlightOf("save", "active") = {}
    /\ writes' = writes (+) One(Write("save", "active", Entries(activeAddresses),
                                      "open", "none"))
    /\ UNCHANGED <<activeAddresses, targetAddresses, dataFiles, tempFiles>>
    /\ PersistFrame

\* addTargetAddress: targetAddresses.set(publicKey, ...) and saveTargetAddresses(),
\* not awaited, which serialises the map as it stands and awaits fs.writeFile of
\* the temporary file
AddTargetAddress(publicKey) ==
    /\ writeCalls < MaxWrites
    /\ writeCalls' = writeCalls + 1
    /\ targetAddresses' = MapSet(targetAddresses, publicKey, BalanceOf(publicKey))
    /\ writes' = writes (+) One(Write("save", "target", Entries(targetAddresses'),
                                      "open", "none"))
    /\ UNCHANGED <<activeAddresses, dataFiles, tempFiles>>
    /\ PersistFrame

\* clearTargetAddresses: targetAddresses.clear() and the save of the emptied map,
\* which the caller awaits
ClearTargetAddresses ==
    /\ writeCalls < MaxWrites
    /\ writeCalls' = writeCalls + 1
    /\ targetAddresses' = <<>>
    /\ writes' = writes (+) One(Write("save", "target", Entries(targetAddresses'),
                                      "open", "none"))
    /\ UNCHANGED <<activeAddresses, dataFiles, tempFiles>>
    /\ PersistFrame

\* appendToFile: readJsonFile returns the array of the file, the record is pushed
\* and writeJsonFile awaits fs.writeFile of the temporary file; or JSON.parse
\* throws on what the file holds, which appendToFile catches and logs
AppendRead(w) ==
    /\ BagIn(w, writes)
    /\ w.phase = "read"
    /\ writes' = IF dataFiles[w.file].st = "json"
                 THEN (writes (-) One(w))
                        (+) One(Write(w.op, w.file,
                                      Push(dataFiles[w.file].data, w.data),
                                      "open", "none"))
                 ELSE writes (-) One(w)
    /\ UNCHANGED <<activeAddresses, targetAddresses, dataFiles, tempFiles>>
    /\ UNCHANGED writeCalls
    /\ PersistFrame

\* fs.writeFile(tempFilePath, ...) opens the temporary file for writing: the file
\* is created, or the one that is there is cut to no bytes
WriteOpen(w) ==
    /\ BagIn(w, writes)
    /\ w.phase = "open"
    /\ tempFiles' = [tempFiles EXCEPT ![w.file] = Broken(0)]
    /\ writes' = (writes (-) One(w))
                    (+) One(Write(w.op, w.file, w.data, "write", "temp"))
    /\ UNCHANGED <<activeAddresses, targetAddresses, dataFiles>>
    /\ UNCHANGED writeCalls
    /\ PersistFrame

\* fs.writeFile writes its bytes into the file it has opened and closes it,
\* wherever that file is by now; writeJsonFile goes on to await fs.rename
WriteDone(w) ==
    /\ BagIn(w, writes)
    /\ w.phase = "write"
    /\ tempFiles' = IF w.fd = "temp"
                    THEN [tempFiles EXCEPT ![w.file] = Overlay(@, w.data)]
                    ELSE tempFiles
    /\ dataFiles' = IF w.fd = "data"
                    THEN [dataFiles EXCEPT ![w.file] = Overlay(@, w.data)]
                    ELSE dataFiles
    /\ writes' = (writes (-) One(w))
                    (+) One(Write(w.op, w.file, w.data, "rename", "none"))
    /\ UNCHANGED <<activeAddresses, targetAddresses>>
    /\ UNCHANGED writeCalls
    /\ PersistFrame

\* writeJsonFile: fs.rename(tempFilePath, filePath) moves the temporary file, with
\* whatever content it has, over the file; when another call has moved it away
\* the rename throws, which appendToFile and the saves catch and log
RenameDone(w) ==
    /\ BagIn(w, writes)
    /\ w.phase = "rename"
    /\ IF tempFiles[w.file].st # "absent"
       THEN /\ dataFiles' = [dataFiles EXCEPT ![w.file] = tempFiles[w.file]]
            /\ tempFiles' = [tempFiles EXCEPT ![w.file] = Absent]
            /\ writes' = Repointed(writes (-) One(w), w.file)
       ELSE /\ writes' = writes (-) One(w)
            /\ UNCHANGED <<dataFiles, tempFiles>>
    /\ UNCHANGED <<activeAddresses, targetAddresses>>
    /\ UNCHANGED writeCalls
    /\ PersistFrame

NextPersist ==
    \/ \E address \in QualifyingAddresses : AddActive(address)
    \/ SaveActive
    \/ \E publicKey \in TargetKeys : AddTargetAddress(publicKey)
    \/ ClearTargetAddresses
    \/ \E w \in BagToSet(writes) : AppendRead(w)
    \/ \E w \in BagToSet(writes) : WriteOpen(w)
    \/ \E w \in BagToSet(writes) : WriteDone(w)
    \/ \E w \in BagToSet(writes) : RenameDone(w)

\* --------------------------------------------------- properties of persistence
\* C33: with no crash, once all in-flight persistence writes have completed, each
\* persisted collection (active addresses, generated keypairs, similarity matches)
\* contains every entity of the corresponding in-memory collection, under any
\* interleaving of concurrent append (read-modify-write) and full-save calls
\* issued by the generator loop, the poll feed and the event-feed handlers.
C33_PersistedHoldsMemory ==
    writes = EmptyBag =>
        /\ dataFiles["active"].st = "json"
        /\ \A i \in 1..Len(activeAddresses) :
              activeAddresses[i] \in Range(dataFiles["active"].data)

\* ========================================================= SPECIFICATIONS
\* the Fund Dispatcher
SpecDispatch == InitDispatch /\ [][NextDispatch]_vars

\* the sweep-back operations on a wallet holding any balance
SpecSweep == InitSweep /\ [][NextSweep]_vars

\* the Target Resolver
SpecResolve == InitResolve /\ [][NextResolve]_vars

\* the Similarity Correlator with the keypair generator and the ingestion callers
SpecCorr == InitCorr /\ [][NextCorr]_vars

\* the Rate Limiter under arbitrary timing of its callers
SpecLimiter == InitLimiter /\ [][NextLimiter]_vars

\* the menu's start and stop and the steps of the loadExistingData calls in flight
StartAndLoads ==
    \/ StartGeneration
    \/ StopGeneration
    \/ \E l \in BagToSet(loading), data \in FileData : LoadGenerated(l, data)
    \/ \E l \in BagToSet(loading), data \in ActiveFileData : LoadActive(l, data)
    \/ \E l \in BagToSet(loading), data \in SimilarFileData : LoadSimilar(l, data)
    \/ \E l \in BagToSet(loading), ok \in BOOLEAN, data \in TargetFileData,
          k \in ScannedKeys, array \in QueueArrays :
          LoadExistingDataDone(l, ok, data, k, array)

\* 'Send Transaction' chosen at any time the menu is shown, and what follows its load
SendTransaction ==
    \/ SendTransactionMenu
    \/ \E viewed \in BOOLEAN : MenuSelect(viewed)
    \/ ViewTargetsClear
    \/ SendTransactionMenuDone

\* the calls of checkAndAddAddress in flight that were made by one of kinds
CallsOf(kinds) == {t \in BagToSet(tasks) : t.kind \in kinds}

\* a call of checkAndAddAddress made by one of kinds resumes after an await inside it
CallSteps(kinds) ==
    \/ \E t \in CallsOf(kinds) : TokenGranted(t)
    \/ \E t \in CallsOf(kinds) : GetBalanceDone(t)
    \/ \E t \in CallsOf(kinds) : CorrelateStep(t)

\* the generator loops and the poll-feed loops under the menu's start and stop
NextLoops ==
    \/ StartAndLoads
    \/ CallSteps({"recheck", "poll"})
    \/ \E k \in ScannedKeys : GenerateAndSaveKeypair(k)
    \/ \E t \in BagToSet(tasks), ok, empty \in BOOLEAN : ExploreRecheckDone(t, ok, empty)
    \/ ExploreSleepDone
    \/ \E ok \in BOOLEAN : ExploreHashDone(ok)
    \/ \E ok \in BOOLEAN, keys \in KeyLists : ExploreBlockDone(ok, keys)
    \/ \E t \in BagToSet(tasks), ok \in BOOLEAN : ExploreKeysDone(t, ok)
    \/ \E array \in QueueArrays : ExploreSaveDone(array)

\* the loops with 'Send Transaction' chosen beside them
NextScan ==
    \/ NextLoops
    \/ SendTransaction

\* the event feed under the menu's start and stop
NextFeed ==
    \/ StartAndLoads
    \/ CallSteps({"event"})
    \/ WsClose
    \/ SetupWebSocket
    \/ \E kind \in MessageKinds, keys \in KeyLists : WsMessage(kind, keys)
    \/ \E t \in BagToSet(tasks), ok \in BOOLEAN : HandlerCheckDone(t, ok)

\* the generator and poll-feed loops and the 'Send Transaction' menu
SpecScan == InitScan /\ [][NextScan]_vars

\* the loops when every await of a live loop eventually returns; the reloads that
\* reach the loops come from a stop followed by a start
SpecScanFair ==
    /\ InitScan
    /\ [][NextLoops]_vars
    /\ WF_vars(\E k \in ScannedKeys : GenerateAndSaveKeypair(k))
    /\ WF_vars(\E t \in CallsOf({"recheck", "poll"}) : TokenGranted(t))
    /\ WF_vars(\E t \in BagToSet(tasks), ok \in BOOLEAN :
                    \/ GetBalanceDone(t)
                    \/ \E empty \in BOOLEAN : ExploreRecheckDone(t, ok, empty)
                    \/ ExploreKeysDone(t, ok))
    /\ WF_vars(\E t \in CallsOf({"recheck", "poll"}) : CorrelateStep(t))
    /\ WF_vars(ExploreSleepDone)
    /\ WF_vars(\E ok \in BOOLEAN : ExploreHashDone(ok))
    /\ WF_vars(\E ok \in BOOLEAN, keys \in KeyLists : ExploreBlockDone(ok, keys))
    /\ WF_vars(\E array \in QueueArrays : ExploreSaveDone(array))

\* the event feed
SpecFeed == InitScan /\ [][NextFeed]_vars

\* checkAndAddAddress called with any address while keypairs are generated and
\* scanning may be stopped
\* the arguments of the calls: an address holding exactly the threshold, one
\* holding less and the excluded one; the keypairs generated meanwhile: one that
\* matches the first address and one that matches none
CheckedAddresses == {A2, A3, VoteProgram}
CheckedKeys == {G2, G3}

NextCheck ==
    \/ \E a \in CheckedAddresses : DirectCall(a)
    \/ \E t \in BagToSet(tasks) : TokenGranted(t)
    \/ \E t \in BagToSet(tasks), ok \in BOOLEAN : BalanceFetched(t, ok)
    \/ \E t \in BagToSet(tasks) : CorrelateStep(t)
    \/ \E t \in BagToSet(tasks) : CheckReturns(t)
    \/ \E k \in CheckedKeys : Generate(k)
    \/ StopGeneration

SpecCheck == InitIngest /\ [][NextCheck]_vars

\* the feeds and the exploration queue in one scanning session
NextIngest ==
    \/ \E key \in SeenAddresses : EventSight(key)
    \/ ExploreCycle
    \/ ExploreRecheck
    \/ ExploreAfterRecheck
    \/ \E address \in SeenAddresses : PollSight(address)
    \/ PollEnd
    \/ \E t \in BagToSet(tasks) : TokenGranted(t)
    \/ \E t \in BagToSet(tasks), ok \in BOOLEAN : BalanceFetched(t, ok)
    \/ \E t \in BagToSet(tasks) : CorrelateStep(t)
    \/ \E t \in BagToSet(tasks) : CheckReturns(t)
    \/ StopGeneration

\* the event feed, the poll feed and the queue re-check of one scanning session
SpecIngest == InitIngest /\ [][NextIngest]_vars

\* one scanning session as startAutoMode runs it: the generator loop, the poll
\* loop with its queue re-check and the event feed; checkForExistingSimilarities
\* is called by none of them
\* the addresses sighted: one that qualifies and one that does not; the keypairs
\* generated: one that matches the first address and one that matches none
SessionAddresses == {A1, A3}
SessionKeys == {G1, G2}

NextSession ==
    \/ \E k \in SessionKeys : Generate(k)
    \/ \E key \in SessionAddresses : EventSight(key)
    \/ ExploreCycle
    \/ ExploreRecheck
    \/ ExploreAfterRecheck
    \/ \E address \in SessionAddresses : PollSight(address)
    \/ PollEnd
    \/ \E t \in BagToSet(tasks) : TokenGranted(t)
    \/ \E t \in BagToSet(tasks), ok \in BOOLEAN : BalanceFetched(t, ok)
    \/ \E t \in BagToSet(tasks) : CorrelateStep(t)
    \/ \E t \in BagToSet(tasks) : CheckReturns(t)
    \/ StopGeneration

\* a call of checkAndAddAddress(address) made by kind resumes after an await
FeedCallers == {"event", "poll", "recheck"}
CallResumes(kind, address) ==
    \E t \in BagToSet(tasks) :
        /\ t.kind = kind
        /\ t.addr = address
        /\ \/ TokenGranted(t)
           \/ \E ok \in BOOLEAN : BalanceFetched(t, ok)
           \/ CorrelateStep(t)
           \/ CheckReturns(t)

\* the session when the generator loop goes on, every await of the poll loop and
\* of a call of checkAndAddAddress eventually returns, and the fetched block, which
\* holds finitely many account keys, comes to its end
SpecSessionFair ==
    /\ InitIngest
    /\ [][NextSession]_vars
    /\ WF_vars(\E k \in SessionKeys : Generate(k))
    /\ WF_vars(ExploreCycle)
    /\ SF_vars(ExploreRecheck)
    /\ WF_vars(ExploreAfterRecheck)
    /\ SF_vars(PollEnd)
    /\ \A kind \in FeedCallers : \A address \in SessionAddresses :
          WF_vars(CallResumes(kind, address))

\* the pairs of a sighted address and a generated keypair with equal first 4
\* characters
MatchingPairs == {p \in SessionAddresses \X SessionKeys : SamePrefix4(p[1], p[2])}

\* the address is active and the keypair is in the pool
PairPresent(a, g) ==
    ActiveHas(activeAddresses, a) /\ g \in Range(generatedKeypairs)
EventuallyRecorded(a, g) == [](PairPresent(a, g) => <>HasRecord(a, g))

\* C31: while scanning stays enabled, for every address A in the active set and
\* every keypair G in the pool whose first 4 characters equal A's, a match record
\* (A,G) eventually exists, including when G is generated after A was last
\* correlated.
C31_EveryMatchEventuallyRecorded ==
    []autoMode => \A p \in MatchingPairs : EventuallyRecorded(p[1], p[2])

\* the active set and its file under the feeds and the poll loop
SpecPersist == InitPersist /\ [][NextPersist]_vars

\* the Rate Limiter when time advances and every expired timer fires, under
\* tasks that call waitForToken again and again
SpecLimiterFair ==
    /\ InitLimiter
    /\ [][NextLimiter]_vars
    /\ WF_vars(Tick)
    /\ \A c \in Callers : WF_vars(Poll(c))

====
